---- MODULE Spec2Model ----
(***************************************************************************)
(* The scripting surface of Memento Database as the declarations of       *)
(* ts-memento document it: libraries, entries, the entry of the current   *)
(* event, the builders of dialogs, notifications and intents, the UI      *)
(* objects of ui() and widgets.  The host application is the state        *)
(* machine; every action is one call of a script (or one act of the host  *)
(* or of the user) with the effect its declaration documents.  The two    *)
(* functions of ts-memento.js are modelled from their code.               *)
(***************************************************************************)
EXTENDS Integers, Sequences, FiniteSets, TLC

VARIABLES
    libs,     \* the libraries of the host: id -> [name, present, permitted]
    store,    \* the entries of all libraries, in the order they were created
    bin,      \* the Recycle Bin: the ids of the entries moved to it
    nextId,   \* the next unused entry identifier
    clock,    \* the host clock (creationTime of the next entry is >= it)
    ret,      \* the last call of the script and what it returned
    evt,      \* the current event and the clone entry() hands to the script
    dlg,      \* the dialog builder / the shown dialog
    calls,    \* the callbacks the host has invoked, oldest first
    ntf,      \* the notification builder
    itn,      \* the intent builder
    host,     \* what the builders have delivered to the host, oldest first
    lay,      \* the UI objects a script has created and the layout of them
    wdg       \* the widget: the runs of its script and the refreshes of its UI

vars == <<libs, store, bin, nextId, clock, ret, evt, dlg, calls,
          ntf, itn, host, lay, wdg>>

-----------------------------------------------------------------------------
(* Bounds *)

\* Entries the host stores under Spec / under SpecOrder.
MaxEntries == 2
MaxOrdered == 3
\* Clicks of the user on one dialog / on the buttons of one widget.
MaxClicks == 2
\* Runs of the script of one widget.
MaxRuns == 3
\* UI objects one script creates for one tree.
MaxObjects == 3
\* Calls of dialogKonfirmasi.
MaxDialogs == 3

-----------------------------------------------------------------------------
(* JavaScript values of fields.  t is the typeof-like tag; s, n, b, l, a   *)
(* hold the payload of a string, a number, a boolean, an array of entries  *)
(* and an array of strings or of images (an image by its uri).            *)

Null   == [t |-> "null",    s |-> "", n |-> 0, b |-> FALSE, l |-> <<>>, a |-> <<>>]
Str(x) == [t |-> "string",  s |-> x,  n |-> 0, b |-> FALSE, l |-> <<>>, a |-> <<>>]
Num(x) == [t |-> "number",  s |-> "", n |-> x, b |-> FALSE, l |-> <<>>, a |-> <<>>]
Bool(x) == [t |-> "boolean", s |-> "", n |-> 0, b |-> x, l |-> <<>>, a |-> <<>>]
Ents(x) == [t |-> "entries", s |-> "", n |-> 0, b |-> FALSE, l |-> x, a |-> <<>>]
Strs(x) == [t |-> "strings", s |-> "", n |-> 0, b |-> FALSE, l |-> <<>>, a |-> x]
Imgs(x) == [t |-> "images",  s |-> "", n |-> 0, b |-> FALSE, l |-> <<>>, a |-> x]

LibIds == {"lib_1", "lib_2"}
LibNames == {"Item Penjualan", "Pesanan Penjualan", "Tasks"}

\* The fields of a library (LibraryStruct) and the kind of each.
FieldNames == {"Catatan", "DueDate", "Pesanan Penjualan", "Project",
               "Quantity", "Completed", "Categories", "Attachments", "Photos"}

FieldKind(k) ==
    CASE k = "Catatan" -> "text"
      [] k = "DueDate" -> "date"
      [] k = "Pesanan Penjualan" -> "linkToEntry"
      [] k = "Project" -> "linkToEntry"
      [] k = "Quantity" -> "number"
      [] k = "Completed" -> "checkbox"
      [] k = "Categories" -> "multipleChoice"
      [] k = "Attachments" -> "linkToFile"
      [] k = "Photos" -> "image"

\* The type field() returns for a field of each kind.
Declared(kind) ==
    CASE kind = "text" -> "string"
      [] kind = "number" -> "number"
      [] kind = "date" -> "string"
      [] kind = "checkbox" -> "boolean"
      [] kind = "multipleChoice" -> "strings"
      [] kind = "linkToEntry" -> "entries"
      [] kind = "linkToFile" -> "strings"
      [] kind = "image" -> "images"

NoFields == [k \in FieldNames |-> Null]

\* new Date(...).getTime(): milliseconds since the epoch
DateMillis == {0, 86400000}

Digit(d) == CASE d = 0 -> "0" [] d = 1 -> "1" [] d = 2 -> "2" [] d = 3 -> "3"
              [] d = 4 -> "4" [] d = 5 -> "5" [] d = 6 -> "6" [] d = 7 -> "7"
              [] d = 8 -> "8" [] d = 9 -> "9"

\* "Date fields: string (ISO date format)": the date of a timestamp of
\* January 1970, as the getter of a Date field returns it.
IsoDate(ms) ==
    LET day == (ms \div (24 * 60 * 60 * 1000)) + 1
    IN  "1970-01-" \o Digit(day \div 10) \o Digit(day % 10)

-----------------------------------------------------------------------------
(* Stored entries *)

Range(s) == {s[i] : i \in DOMAIN s}

Ids == {e.id : e \in Range(store)}

IndexOf(id) == CHOOSE i \in DOMAIN store : store[i].id = id

EntryOf(id) == store[IndexOf(id)]

\* The value a field has when create() was given no value for it.
DefaultValue(k) ==
    CASE FieldKind(k) = "text" -> Str("")
      [] FieldKind(k) = "date" -> Null
      [] FieldKind(k) = "linkToEntry" -> Ents(<<>>)
      [] FieldKind(k) = "number" -> Num(0)
      [] FieldKind(k) = "checkbox" -> Bool(FALSE)
      [] FieldKind(k) = "multipleChoice" -> Strs(<<>>)
      [] FieldKind(k) = "linkToFile" -> Strs(<<>>)
      [] FieldKind(k) = "image" -> Imgs(<<>>)

\* field() that returns the value as it was given to set() or create().
fieldAsGiven(e, k) == e.fields[k]

\* Entry.field(name): the value of the field in its appropriate type.  A Date
\* field is set from a timestamp and read as a string in ISO date format.
field(e, k) ==
    LET v == e.fields[k]
    IN  IF FieldKind(k) = "date" /\ v.t = "number" THEN Str(IsoDate(v.n)) ELSE v

\* Entry.deleted: true if the entry is in the Recycle Bin.
deleted(e) == e.id \in bin

\* What the last call returned: the id of an entry (0 for null), or an error.
\* For a lookup: the name or id asked for and the Library handle returned
\* (NoLibrary for null).
NoLibrary == ""
Void == [op |-> "void", arg |-> "", lib |-> NoLibrary, id |-> 0, err |-> FALSE]
Returned(op, l, id) == [op |-> op, arg |-> "", lib |-> l, id |-> id, err |-> FALSE]
Failed(op, l) == [op |-> op, arg |-> "", lib |-> l, id |-> 0, err |-> TRUE]
Found(op, arg, l) == [op |-> op, arg |-> arg, lib |-> l, id |-> 0, err |-> FALSE]

\* A script holds a Library handle only of a library that exists and that it
\* is permitted to access.
Accessible(l) == libs[l].present /\ libs[l].permitted

-----------------------------------------------------------------------------
(* lib(), libByName(name), libById(id) *)

\* A lookup by name that does not ask for the permission of the script.
libByNameAnyPermission(name) ==
    LET found == {l \in LibIds : libs[l].present /\ libs[l].name = name}
    IN  IF found # {} THEN CHOOSE l \in found : TRUE ELSE NoLibrary

\* libByName(name): the library with the specified name; null if the library
\* is not found or permissions are insufficient.
libByName(name) ==
    LET found == {l \in LibIds : libs[l].present /\ libs[l].name = name}
    IN  IF \E l \in found : libs[l].permitted
        THEN CHOOSE l \in found : libs[l].permitted
        ELSE NoLibrary

\* libById(id): the library with the specified ID, under the same permissions.
libById(id) ==
    IF id \in LibIds /\ libs[id].present /\ libs[id].permitted
    THEN id
    ELSE NoLibrary

LibByName(name) ==
    /\ ret' = Found("libByName", name, libByName(name))
    /\ UNCHANGED <<libs, store, bin, nextId, clock, evt, dlg, calls,
                   ntf, itn, host, lay, wdg>>

LibById(id) ==
    /\ ret' = Found("libById", id, libById(id))
    /\ UNCHANGED <<libs, store, bin, nextId, clock, evt, dlg, calls,
                   ntf, itn, host, lay, wdg>>

\* A rename that gives the library a new ID: the old ID finds nothing.
RenameChangingId(l, name) ==
    /\ libs[l].present
    /\ name # libs[l].name
    /\ \A o \in LibIds \ {l} : libs[o].name # name
    /\ libs' = [libs EXCEPT ![l].name = name, ![l].present = FALSE]
    /\ UNCHANGED <<store, bin, nextId, clock, ret, evt, dlg, calls,
                   ntf, itn, host, lay, wdg>>

\* The user renames library l in the host: the name changes, the ID does not.
Rename(l, name) ==
    /\ libs[l].present
    /\ name # libs[l].name
    /\ \A o \in LibIds \ {l} : libs[o].name # name
    /\ libs' = [libs EXCEPT ![l].name = name]
    /\ UNCHANGED <<store, bin, nextId, clock, ret, evt, dlg, calls,
                   ntf, itn, host, lay, wdg>>

-----------------------------------------------------------------------------
(* Library: queries *)

OfLibrary(l) == {e \in Range(store) : e.lib = l}

\* The oldest entry instead of the newest: the order of entries() reversed.
Oldest(S) ==
    CHOOSE e \in S : \A o \in S :
        \/ o.creationTime > e.creationTime
        \/ o.creationTime = e.creationTime /\ IndexOf(o.id) >= IndexOf(e.id)

\* The newest entry of a non-empty set: greatest creation time, and among
\* entries created at the same time the one stored last.
Newest(S) ==
    CHOOSE e \in S : \A o \in S :
        \/ o.creationTime < e.creationTime
        \/ o.creationTime = e.creationTime /\ IndexOf(o.id) <= IndexOf(e.id)

RECURSIVE SortNewestFirst(_)
SortNewestFirst(S) ==
    IF S = {} THEN <<>>
    ELSE LET e == Newest(S) IN <<e>> \o SortNewestFirst(S \ {e})

\* entries() that leaves out the entries in the Recycle Bin.
entriesWithoutTrashed(l) == SortNewestFirst({e \in OfLibrary(l) : ~deleted(e)})

\* Library.entries(): all entries sorted by creation time (newest first).
entries(l) == SortNewestFirst(OfLibrary(l))

\* lastEntry() that takes the other end of entries().
lastEntryOldest(l) ==
    IF OfLibrary(l) = {} THEN 0 ELSE entries(l)[Len(entries(l))].id

\* Library.lastEntry(): the newest entry or null (0) if the library is empty.
lastEntry(l) ==
    IF OfLibrary(l) = {} THEN 0 ELSE entries(l)[1].id

\* Library.firstEntry(): the oldest entry or null (0) if the library is empty.
firstEntry(l) ==
    IF OfLibrary(l) = {} THEN 0 ELSE entries(l)[Len(entries(l))].id

\* findById() that searches the entries of every library.
findByIdInAnyLibrary(l, id) ==
    IF \E e \in Range(store) : e.id = id THEN id ELSE 0

\* Library.findById(id): the entry with the specified ID if found, else null.
findById(l, id) ==
    IF \E e \in OfLibrary(l) : e.id = id THEN id ELSE 0

\* A script calls findById(id) on the handle of library l.
FindById(l, id) ==
    /\ Accessible(l)
    /\ ret' = Returned("findById", l, findById(l, id))
    /\ UNCHANGED <<libs, store, bin, nextId, clock, evt, dlg, calls,
                   ntf, itn, host, lay, wdg>>

LinkFields == {k \in FieldNames : FieldKind(k) = "linkToEntry"}

\* linksTo() that searches one Link to Entry field only.
linksToInOneField(l, x) ==
    {e.id : e \in {o \in OfLibrary(l) :
                     \E i \in DOMAIN o.fields["Pesanan Penjualan"].l :
                        o.fields["Pesanan Penjualan"].l[i] = x}}

\* Library.linksTo(entry): the entries of the library that have a link to the
\* entry in any of their Link to Entry fields.
linksTo(l, x) ==
    {e.id : e \in {o \in OfLibrary(l) :
                     \E k \in LinkFields :
                        \E i \in DOMAIN o.fields[k].l : o.fields[k].l[i] = x}}

-----------------------------------------------------------------------------
(* Library.create and the operations of a stored Entry *)

\* create() that stores no links: the array given for a Link to Entry field
\* is lost.
NewEntryWithoutLinks(l, id, time, values) ==
    [id |-> id, lib |-> l, creationTime |-> time,
     fields |-> [k \in FieldNames |->
                   IF k \in DOMAIN values /\ FieldKind(k) # "linkToEntry"
                   THEN values[k] ELSE DefaultValue(k)]]

\* The entry create() builds from a name -> value mapping.
NewEntry(l, id, time, values) ==
    [id |-> id, lib |-> l, creationTime |-> time,
     fields |-> [k \in FieldNames |->
                   IF k \in DOMAIN values THEN values[k] ELSE DefaultValue(k)]]

\* create() that numbers the entries of each library from 1, so that entries
\* of two libraries share an id.
CreateCountingIds(l, values, dt) ==
    /\ Accessible(l)
    /\ store' = Append(store, NewEntry(l, Cardinality(OfLibrary(l)) + 1,
                                       clock + dt, values))
    /\ nextId' = nextId + 1
    /\ clock' = clock + dt
    /\ ret' = Returned("create", l, Cardinality(OfLibrary(l)) + 1)
    /\ UNCHANGED <<libs, bin, evt, dlg, calls, ntf, itn, host, lay, wdg>>

\* Library.create(values): a new entry in the library with the given values.
Create(l, values, dt) ==
    /\ Accessible(l)
    /\ store' = Append(store, NewEntry(l, nextId, clock + dt, values))
    /\ nextId' = nextId + 1
    /\ clock' = clock + dt
    /\ ret' = Returned("create", l, nextId)
    /\ UNCHANGED <<libs, bin, evt, dlg, calls, ntf, itn, host, lay, wdg>>

\* Library.create(values) ending in a host-level error: nothing is created.
CreateFails(l) ==
    /\ Accessible(l)
    /\ ret' = Failed("create", l)
    /\ UNCHANGED <<libs, store, bin, nextId, clock, evt, dlg, calls,
                   ntf, itn, host, lay, wdg>>

WithField(id, k, v) ==
    [store EXCEPT ![IndexOf(id)].fields[k] = v]

\* A set that takes the entry out of the Recycle Bin.
SetRestoring(id, k, v) ==
    /\ id \in Ids
    /\ store' = WithField(id, k, v)
    /\ bin' = bin \ {id}
    /\ ret' = Void
    /\ UNCHANGED <<libs, nextId, clock, evt, dlg, calls,
                   ntf, itn, host, lay, wdg>>

\* Entry.set(name, value)
Set(id, k, v) ==
    /\ id \in Ids
    /\ store' = WithField(id, k, v)
    /\ ret' = Void
    /\ UNCHANGED <<libs, bin, nextId, clock, evt, dlg, calls,
                   ntf, itn, host, lay, wdg>>

Linked(v, x) == \E i \in DOMAIN v.l : v.l[i] = x

Without(s, x) == SelectSeq(s, LAMBDA y : y # x)

AddLink(v, x) == IF Linked(v, x) THEN v ELSE Ents(Append(v.l, x))

RemoveLink(v, x) == Ents(Without(v.l, x))

\* Entry.link(name, entry): add a link to another entry in a Link to Entry field.
Link(id, k, x) ==
    /\ id \in Ids /\ x \in Ids
    /\ FieldKind(k) = "linkToEntry"
    /\ store' = WithField(id, k, AddLink(EntryOf(id).fields[k], x))
    /\ ret' = Void
    /\ UNCHANGED <<libs, bin, nextId, clock, evt, dlg, calls,
                   ntf, itn, host, lay, wdg>>

\* Entry.unlink(name, entry): remove a link from a Link to Entry field.
Unlink(id, k, x) ==
    /\ id \in Ids /\ x \in Ids
    /\ FieldKind(k) = "linkToEntry"
    /\ store' = WithField(id, k, RemoveLink(EntryOf(id).fields[k], x))
    /\ ret' = Void
    /\ UNCHANGED <<libs, bin, nextId, clock, evt, dlg, calls,
                   ntf, itn, host, lay, wdg>>

\* Entry.trash(): move the entry to the Recycle Bin.
Trash(id) ==
    /\ id \in Ids
    /\ bin' = bin \cup {id}
    /\ ret' = Void
    /\ UNCHANGED <<libs, store, nextId, clock, evt, dlg, calls,
                   ntf, itn, host, lay, wdg>>

\* Entry.untrash(): restore the entry from the Recycle Bin.
Untrash(id) ==
    /\ id \in Ids
    /\ bin' = bin \ {id}
    /\ ret' = Void
    /\ UNCHANGED <<libs, store, nextId, clock, evt, dlg, calls,
                   ntf, itn, host, lay, wdg>>

\* duplicate() that returns the entry itself: no copy is made.
DuplicateReturningSelf(id, dt) ==
    /\ id \in Ids
    /\ ret' = Returned("duplicate", EntryOf(id).lib, id)
    /\ UNCHANGED <<libs, store, bin, nextId, clock, evt, dlg, calls,
                   ntf, itn, host, lay, wdg>>

\* Entry.duplicate(): create and return an exact copy of the entry.
Duplicate(id, dt) ==
    /\ id \in Ids
    /\ store' = Append(store, [EntryOf(id) EXCEPT !.id = nextId,
                                                 !.creationTime = clock + dt])
    /\ nextId' = nextId + 1
    /\ clock' = clock + dt
    /\ ret' = Returned("duplicate", EntryOf(id).lib, nextId)
    /\ UNCHANGED <<libs, bin, evt, dlg, calls, ntf, itn, host, lay, wdg>>

-----------------------------------------------------------------------------
(* The entry of the current event.  The host runs a script in a phase of an *)
(* event: before an edited entry is saved, before a new entry is created, *)
(* or after an entry was saved.  entry() hands the script a clone of the   *)
(* actual entry; the operation that triggered the event follows the       *)
(* script unless cancel() stopped it.                                     *)

Phases == {"beforeSave", "beforeCreate", "afterSave"}

\* cancel() that works in the script of every event.
CancelWorksAlways(phase) == TRUE

\* cancel() works only in scripts executed before saving or before creating.
CancelWorks(phase) == phase \in {"beforeSave", "beforeCreate"}

Running == evt.pc = "script"

\* The host starts the script of an event on a stored entry.
BeginEvent(phase, id) ==
    /\ ~Running
    /\ phase \in {"beforeSave", "afterSave"}
    /\ id \in Ids
    /\ evt' = [pc |-> "script", phase |-> phase, id |-> id,
               clone |-> EntryOf(id).fields, cancelled |-> FALSE]
    /\ ret' = Void
    /\ UNCHANGED <<libs, store, bin, nextId, clock, dlg, calls,
                   ntf, itn, host, lay, wdg>>

\* The host starts the script of the event of creating an entry in library l.
BeginCreateEvent(l, values) ==
    /\ ~Running
    /\ Accessible(l)
    /\ evt' = [pc |-> "script", phase |-> "beforeCreate", id |-> 0,
               clone |-> NewEntry(l, 0, 0, values).fields, cancelled |-> FALSE]
    /\ ret' = Void
    /\ UNCHANGED <<libs, store, bin, nextId, clock, dlg, calls,
                   ntf, itn, host, lay, wdg>>

\* The host starts the script of the event 'Creating an entry > Opening an
\* Entry Edit card' in library l: the entry is not yet created, the script
\* is given its default field values.
BeginOpenCreateEvent(l) ==
    /\ ~Running
    /\ Accessible(l)
    /\ evt' = [pc |-> "script", phase |-> "openCreate", id |-> 0,
               clone |-> NewEntry(l, 0, 0, <<>>).fields, cancelled |-> FALSE]
    /\ ret' = Void
    /\ UNCHANGED <<libs, store, bin, nextId, clock, dlg, calls,
                   ntf, itn, host, lay, wdg>>

\* What entry() and entryDefault() hand the script: the clone of the entry
\* of the event, the defaults of the entry to create, or null.
Handle(op, object) ==
    [op |-> op, arg |-> object, lib |-> NoLibrary, id |-> evt.id, err |-> FALSE]

\* What a call gives a script when the function is not available: null or
\* an error, nothing the script can use as an entry.
Unavailable(op) ==
    {[op |-> op, arg |-> "null", lib |-> NoLibrary, id |-> 0, err |-> FALSE],
     Failed(op, NoLibrary)}

\* entry() that is available in the script of every event.
entryAvailableInEveryEvent == Running

\* entry() has an entry to return in the script of an event on an entry,
\* except during 'Creating an entry > Opening an Entry Edit card'.
entryAvailable == Running /\ evt.phase \in Phases

\* entryDefault() is only available during 'Creating an entry > Opening an
\* Entry Edit card'.
entryDefaultAvailable == Running /\ evt.phase = "openCreate"

\* entry(): the Entry object of the current event.
Entry ==
    /\ IF entryAvailable
       THEN ret' = Handle("entry", "clone")
       ELSE ret' \in Unavailable("entry")
    /\ UNCHANGED <<libs, store, bin, nextId, clock, evt, dlg, calls,
                   ntf, itn, host, lay, wdg>>

\* entryDefault(): the default field values for a not-yet-created entry.
EntryDefault ==
    /\ IF entryDefaultAvailable
       THEN ret' = Handle("entryDefault", "defaults")
       ELSE ret' \in Unavailable("entryDefault")
    /\ UNCHANGED <<libs, store, bin, nextId, clock, evt, dlg, calls,
                   ntf, itn, host, lay, wdg>>

\* entryDefault().set(name, value): a default value for the new entry.
EntryDefaultSet(k, v) ==
    /\ entryDefaultAvailable
    /\ evt' = [evt EXCEPT !.clone[k] = v]
    /\ ret' = Void
    /\ UNCHANGED <<libs, store, bin, nextId, clock, dlg, calls,
                   ntf, itn, host, lay, wdg>>

\* A set on the clone that writes through to the actual entry.
EntrySetWriteThrough(k, v) ==
    /\ Running
    /\ evt' = [evt EXCEPT !.clone[k] = v]
    /\ store' = IF evt.id \in Ids
                THEN [store EXCEPT ![IndexOf(evt.id)].fields[k] = v]
                ELSE store
    /\ ret' = Void
    /\ UNCHANGED <<libs, bin, nextId, clock, dlg, calls,
                   ntf, itn, host, lay, wdg>>

\* entry().set(name, value): a change of the clone.
EntrySet(k, v) ==
    /\ Running
    /\ evt' = [evt EXCEPT !.clone[k] = v]
    /\ ret' = Void
    /\ UNCHANGED <<libs, store, bin, nextId, clock, dlg, calls,
                   ntf, itn, host, lay, wdg>>

\* entry().link(name, entry)
EntryLink(k, x) ==
    /\ Running
    /\ x \in Ids
    /\ FieldKind(k) = "linkToEntry"
    /\ evt' = [evt EXCEPT !.clone[k] = AddLink(evt.clone[k], x)]
    /\ ret' = Void
    /\ UNCHANGED <<libs, store, bin, nextId, clock, dlg, calls,
                   ntf, itn, host, lay, wdg>>

\* entry().unlink(name, entry)
EntryUnlink(k, x) ==
    /\ Running
    /\ x \in Ids
    /\ FieldKind(k) = "linkToEntry"
    /\ evt' = [evt EXCEPT !.clone[k] = RemoveLink(evt.clone[k], x)]
    /\ ret' = Void
    /\ UNCHANGED <<libs, store, bin, nextId, clock, dlg, calls,
                   ntf, itn, host, lay, wdg>>

\* cancel(): stops the system operation that triggered the event.
Cancel ==
    /\ Running
    /\ evt' = [evt EXCEPT !.cancelled = TRUE]
    /\ ret' = Void
    /\ UNCHANGED <<libs, store, bin, nextId, clock, dlg, calls,
                   ntf, itn, host, lay, wdg>>

\* The operation stopped: the clone and any changes are discarded.
Stopped == evt.cancelled /\ CancelWorks(evt.phase)

\* The end of a script that saves the clone although cancel() was called.
EndScriptIgnoringCancel(l, dt) ==
    /\ Running
    /\ \/ /\ evt.phase = "beforeSave"
          /\ store' = [store EXCEPT ![IndexOf(evt.id)].fields = evt.clone]
          /\ evt' = [evt EXCEPT !.pc = IF Stopped THEN "discarded" ELSE "saved"]
       \/ /\ evt.phase # "beforeSave"
          /\ evt' = [evt EXCEPT !.pc = "done"]
          /\ UNCHANGED store
    /\ ret' = Void
    /\ UNCHANGED <<libs, bin, nextId, clock, dlg, calls,
                   ntf, itn, host, lay, wdg>>

\* The host goes on with the operation of the event once the script is over:
\* the entry is saved (the clone becomes the actual entry) or created, unless
\* cancel() stopped the operation; after a save, and when the edit card of a
\* new entry is opening, there is nothing to save.
Finish(l, dt) ==
    \/ /\ Stopped
       /\ evt' = [evt EXCEPT !.pc = "discarded"]
       /\ UNCHANGED <<store, nextId, clock>>
    \/ /\ ~Stopped /\ evt.phase = "beforeSave"
       /\ store' = [store EXCEPT ![IndexOf(evt.id)].fields = evt.clone]
       /\ evt' = [evt EXCEPT !.pc = "saved"]
       /\ UNCHANGED <<nextId, clock>>
    \/ /\ ~Stopped /\ evt.phase = "beforeCreate"
       /\ Accessible(l)
       /\ store' = Append(store, [id |-> nextId, lib |-> l,
                                  creationTime |-> clock + dt,
                                  fields |-> evt.clone])
       /\ nextId' = nextId + 1
       /\ clock' = clock + dt
       /\ evt' = [evt EXCEPT !.pc = "saved", !.id = nextId]
    \/ /\ evt.phase \in {"afterSave", "openCreate"}
       /\ evt' = [evt EXCEPT !.pc = "done"]
       /\ UNCHANGED <<store, nextId, clock>>

\* exit() that returns to the script, which goes on.
ExitReturning(l, dt) ==
    /\ Running
    /\ ret' = Returned("exit", NoLibrary, 0)
    /\ UNCHANGED <<libs, store, bin, nextId, clock, evt, dlg, calls,
                   ntf, itn, host, lay, wdg>>

\* exit(): terminates script execution immediately; the script is over.
Exit(l, dt) ==
    /\ Running
    /\ Finish(l, dt)
    /\ ret' = Returned("exit", NoLibrary, 0)
    /\ UNCHANGED <<libs, bin, dlg, calls, ntf, itn, host, lay, wdg>>

\* The script has run to its end.
EndScript(l, dt) ==
    /\ Running
    /\ Finish(l, dt)
    /\ ret' = Void
    /\ UNCHANGED <<libs, bin, dlg, calls, ntf, itn, host, lay, wdg>>

-----------------------------------------------------------------------------
(* ts-memento.js: buatContohItemPenjualan(), run as the script of an event *)
(* on an entry.  One run of the function is one step: no other script and *)
(* no act of the user comes between its calls.                            *)

\* let items = ['Prosesor', 'Mobo', 'Ram']
Items == <<"Prosesor", "Mobo", "Ram">>

\* The values that leave the link to the entry of the event out.
ItemValuesWithoutLink(e, i) ==
    [k \in {"Catatan"} |-> Str(i)]

\* { 'Pesanan Penjualan': [e], Catatan: i }
ItemValues(e, i) ==
    [k \in {"Pesanan Penjualan", "Catatan"} |->
        IF k = "Catatan" THEN Str(i) ELSE Ents(<<e>>)]

\* What the calls of one run have made of the host so far, and whether a
\* call has thrown.
Heap == [store |-> store, nextId |-> nextId, clock |-> clock, err |-> FALSE]

\* itemsLib.create(values) within a run: Library.create on a library, a
\* TypeError on null.
createOn(h, l, values, dt) ==
    IF l = NoLibrary
    THEN [h EXCEPT !.err = TRUE]
    ELSE [h EXCEPT !.store = Append(@, NewEntry(l, h.nextId, h.clock + dt, values)),
                   !.nextId = @ + 1,
                   !.clock = @ + dt]

\* items.forEach(i => { itemsLib.create({...}) }) from item n on: an error
\* thrown in the callback ends the loop.
RECURSIVE forEach(_, _, _, _, _)
forEach(h, n, itemsLib, e, dt) ==
    IF n > Len(Items) \/ h.err THEN h
    ELSE forEach(createOn(h, itemsLib, ItemValues(e, Items[n]), dt),
                 n + 1, itemsLib, e, dt)

\* The function with a check of itemsLib: it returns when the library is null.
BuatContohItemPenjualanCheckingNull(dt) ==
    /\ entryAvailable
    /\ \E h \in {forEach(Heap, 1, libByName("Item Penjualan"), evt.id, dt)} :
          /\ store' = h.store
          /\ nextId' = h.nextId
          /\ clock' = h.clock
          /\ ret' = Void
    /\ UNCHANGED <<libs, bin, evt, dlg, calls, ntf, itn, host, lay, wdg>>

\* buatContohItemPenjualan(): e = entry(), itemsLib = libByName('Item
\* Penjualan'), then one create per item; the function returns nothing, or
\* ends with the error a call has thrown.
BuatContohItemPenjualan(dt) ==
    /\ entryAvailable
    /\ \E h \in {forEach(Heap, 1, libByName("Item Penjualan"), evt.id, dt)} :
          /\ store' = h.store
          /\ nextId' = h.nextId
          /\ clock' = h.clock
          /\ ret' = IF h.err THEN Failed("create", NoLibrary) ELSE Void
    /\ UNCHANGED <<libs, bin, evt, dlg, calls, ntf, itn, host, lay, wdg>>

-----------------------------------------------------------------------------
(* dialog(): the Dialog builder and the dialog it shows *)

Buttons == {"positive", "negative", "neutral"}

\* The functions a script passes as callbacks.
Callbacks == {"cb", "other"}

NoButton == [text |-> "", callback |-> ""]

\* The UI objects a script passes to view(); NoView when none was set.
NoView == ""

NoDialog == [pc |-> "none", title |-> "", text |-> "", view |-> NoView,
             buttons |-> [b \in Buttons |-> NoButton], autoDismiss |-> TRUE]

\* What the host has been handed: the dialogs and notifications to display
\* and the intents sent to the Android system.
NoOutput == [dialogs |-> <<>>, notifications |-> <<>>, intents |-> <<>>]

\* The configuration a dialog builder holds.
DialogConfig(d) ==
    [title |-> d.title, text |-> d.text, view |-> d.view,
     buttons |-> d.buttons, autoDismiss |-> d.autoDismiss]

\* dialog(): a new builder; a dialog closes after a button click unless
\* autoDismiss(false) is set.
Dialog ==
    /\ dlg.pc = "none"
    /\ dlg' = [NoDialog EXCEPT !.pc = "building"]
    /\ ret' = Void
    /\ UNCHANGED <<libs, store, bin, nextId, clock, evt, calls,
                   ntf, itn, host, lay, wdg>>

\* title() that displays a dialog at once.
TitleShowing(text) ==
    /\ dlg.pc = "building"
    /\ dlg' = [dlg EXCEPT !.title = text]
    /\ host' = [host EXCEPT !.dialogs = Append(@, DialogConfig(dlg'))]
    /\ ret' = Void
    /\ UNCHANGED <<libs, store, bin, nextId, clock, evt, calls,
                   ntf, itn, lay, wdg>>

\* Dialog.title(text)
Title(text) ==
    /\ dlg.pc = "building"
    /\ dlg' = [dlg EXCEPT !.title = text]
    /\ ret' = Void
    /\ UNCHANGED <<libs, store, bin, nextId, clock, evt, calls,
                   ntf, itn, host, lay, wdg>>

\* Dialog.text(text)
Text(text) ==
    /\ dlg.pc = "building"
    /\ dlg' = [dlg EXCEPT !.text = text]
    /\ ret' = Void
    /\ UNCHANGED <<libs, store, bin, nextId, clock, evt, calls,
                   ntf, itn, host, lay, wdg>>

\* Dialog.view(uiObject)
View(uiObject) ==
    /\ dlg.pc = "building"
    /\ dlg' = [dlg EXCEPT !.view = uiObject]
    /\ ret' = Void
    /\ UNCHANGED <<libs, store, bin, nextId, clock, evt, calls,
                   ntf, itn, host, lay, wdg>>

AddButton(b, text, callback) ==
    /\ dlg.pc = "building"
    /\ dlg' = [dlg EXCEPT !.buttons[b] = [text |-> text, callback |-> callback]]
    /\ ret' = Void
    /\ UNCHANGED <<libs, store, bin, nextId, clock, evt, calls,
                   ntf, itn, host, lay, wdg>>

\* Dialog.positiveButton(text, callback)
PositiveButton(text, callback) == AddButton("positive", text, callback)

\* Dialog.negativeButton(text, callback)
NegativeButton(text, callback) == AddButton("negative", text, callback)

\* Dialog.neutralButton(text, callback)
NeutralButton(text, callback) == AddButton("neutral", text, callback)

\* Dialog.autoDismiss(autoDismiss)
AutoDismiss(b) ==
    /\ dlg.pc = "building"
    /\ dlg' = [dlg EXCEPT !.autoDismiss = b]
    /\ ret' = Void
    /\ UNCHANGED <<libs, store, bin, nextId, clock, evt, calls,
                   ntf, itn, host, lay, wdg>>

\* show() that runs the callback of the positive button at once.
ShowInvokingCallback ==
    /\ dlg.pc = "building"
    /\ dlg' = [dlg EXCEPT !.pc = "shown"]
    /\ calls' = IF dlg.buttons["positive"] # NoButton
                THEN Append(calls, [button |-> "positive",
                                    callback |-> dlg.buttons["positive"].callback])
                ELSE calls
    /\ host' = [host EXCEPT !.dialogs = Append(@, DialogConfig(dlg))]
    /\ ret' = Void
    /\ UNCHANGED <<libs, store, bin, nextId, clock, evt, ntf, itn, lay, wdg>>

\* Dialog.show(): displays the configured dialog.
Show ==
    /\ dlg.pc = "building"
    /\ dlg' = [dlg EXCEPT !.pc = "shown"]
    /\ host' = [host EXCEPT !.dialogs = Append(@, DialogConfig(dlg))]
    /\ ret' = Void
    /\ UNCHANGED <<libs, store, bin, nextId, clock, evt, calls,
                   ntf, itn, lay, wdg>>

\* A click that closes the dialog whatever autoDismiss was set to.
ClickClosing(b, result) ==
    /\ dlg.pc = "shown"
    /\ dlg.buttons[b] # NoButton
    /\ calls' = Append(calls, [button |-> b, callback |-> dlg.buttons[b].callback])
    /\ dlg' = [dlg EXCEPT !.pc = "closed"]
    /\ ret' = Void
    /\ UNCHANGED <<libs, store, bin, nextId, clock, evt,
                   ntf, itn, host, lay, wdg>>

\* The user clicks a button of the shown dialog: the host executes the
\* callback of that button, which returns `result`; with autoDismiss(false)
\* the dialog only closes when the callback returns true.
Click(b, result) ==
    /\ dlg.pc = "shown"
    /\ dlg.buttons[b] # NoButton
    /\ calls' = Append(calls, [button |-> b, callback |-> dlg.buttons[b].callback])
    /\ dlg' = [dlg EXCEPT !.pc = IF dlg.autoDismiss \/ result
                                 THEN "closed" ELSE "shown"]
    /\ ret' = Void
    /\ UNCHANGED <<libs, store, bin, nextId, clock, evt,
                   ntf, itn, host, lay, wdg>>

-----------------------------------------------------------------------------
(* notification(): the Notification builder *)

NoNotification ==
    [pc |-> "none", id |-> 0, title |-> "", text |-> "", bigText |-> "",
     smallIcon |-> "", largeIcon |-> "", alertOnce |-> FALSE]

\* The configuration a notification builder holds.
NotificationConfig(n) ==
    [id |-> n.id, title |-> n.title, text |-> n.text, bigText |-> n.bigText,
     smallIcon |-> n.smallIcon, largeIcon |-> n.largeIcon,
     alertOnce |-> n.alertOnce]

\* notification(): a new builder.
Notification ==
    /\ ntf.pc = "none"
    /\ ntf' = [NoNotification EXCEPT !.pc = "building"]
    /\ ret' = Void
    /\ UNCHANGED <<libs, store, bin, nextId, clock, evt, dlg, calls,
                   itn, host, lay, wdg>>

\* A setter of the builder: the value is kept in the builder.
NotifySet(attribute, value) ==
    /\ ntf.pc = "building"
    /\ ntf' = [ntf EXCEPT ![attribute] = value]
    /\ ret' = Void
    /\ UNCHANGED <<libs, store, bin, nextId, clock, evt, dlg, calls,
                   itn, host, lay, wdg>>

\* Notification.id(value)
NotifyId(value) == NotifySet("id", value)

\* Notification.title(text)
NotifyTitle(text) == NotifySet("title", text)

\* Notification.text(content)
NotifyText(content) == NotifySet("text", content)

\* Notification.bigText(content)
NotifyBigText(content) == NotifySet("bigText", content)

\* Notification.smallIcon(icon)
NotifySmallIcon(icon) == NotifySet("smallIcon", icon)

\* Notification.largeIcon(icon)
NotifyLargeIcon(icon) == NotifySet("largeIcon", icon)

\* Notification.alertOnce()
NotifyAlertOnce == NotifySet("alertOnce", TRUE)

\* show() that displays the notification twice.
NotifyShowTwice ==
    /\ ntf.pc = "building"
    /\ ntf' = [ntf EXCEPT !.pc = "shown"]
    /\ host' = [host EXCEPT !.notifications =
                   @ \o <<NotificationConfig(ntf), NotificationConfig(ntf)>>]
    /\ ret' = Void
    /\ UNCHANGED <<libs, store, bin, nextId, clock, evt, dlg, calls,
                   itn, lay, wdg>>

\* Notification.show(): displays the configured notification.
NotifyShow ==
    /\ ntf.pc = "building"
    /\ ntf' = [ntf EXCEPT !.pc = "shown"]
    /\ host' = [host EXCEPT !.notifications = Append(@, NotificationConfig(ntf))]
    /\ ret' = Void
    /\ UNCHANGED <<libs, store, bin, nextId, clock, evt, dlg, calls,
                   itn, lay, wdg>>

-----------------------------------------------------------------------------
(* intent(action): the Intent builder *)

IntentActions == {"android.intent.action.SENDTO", "android.intent.action.INSERT"}

\* The keys of the extra data scripts add.
ExtraKeys == {"sms_body", "beginTime"}

NoIntent == [pc |-> "none", action |-> "", data |-> "",
             extras |-> [key \in ExtraKeys |-> Null], mimeType |-> ""]

\* The configuration an intent builder holds.
IntentConfig(i) ==
    [action |-> i.action, data |-> i.data, extras |-> i.extras,
     mimeType |-> i.mimeType]

\* intent(action): an Intent object for the action.
Intent(action) ==
    /\ itn.pc = "none"
    /\ itn' = [NoIntent EXCEPT !.pc = "building", !.action = action]
    /\ ret' = Void
    /\ UNCHANGED <<libs, store, bin, nextId, clock, evt, dlg, calls,
                   ntf, host, lay, wdg>>

\* Intent.data(uri)
Data(uri) ==
    /\ itn.pc = "building"
    /\ itn' = [itn EXCEPT !.data = uri]
    /\ ret' = Void
    /\ UNCHANGED <<libs, store, bin, nextId, clock, evt, dlg, calls,
                   ntf, host, lay, wdg>>

\* Intent.extra(key, value)
Extra(key, value) ==
    /\ itn.pc = "building"
    /\ itn' = [itn EXCEPT !.extras[key] = value]
    /\ ret' = Void
    /\ UNCHANGED <<libs, store, bin, nextId, clock, evt, dlg, calls,
                   ntf, host, lay, wdg>>

\* Intent.extraLong(key, value): the value as a Long.
ExtraLong(key, value) == Extra(key, Num(value))

\* Intent.mimeType(mime)
MimeType(mime) ==
    /\ itn.pc = "building"
    /\ itn' = [itn EXCEPT !.mimeType = mime]
    /\ ret' = Void
    /\ UNCHANGED <<libs, store, bin, nextId, clock, evt, dlg, calls,
                   ntf, host, lay, wdg>>

\* Intent.send(): executes the intent, sending it to the Android system.
Send ==
    /\ itn.pc = "building"
    /\ itn' = [itn EXCEPT !.pc = "sent"]
    /\ host' = [host EXCEPT !.intents = Append(@, IntentConfig(itn))]
    /\ ret' = Void
    /\ UNCHANGED <<libs, store, bin, nextId, clock, evt, dlg, calls,
                   ntf, lay, wdg>>

-----------------------------------------------------------------------------
(* ui(): the UI objects of a script.  lay.nodes holds the objects in the    *)
(* order the script created them; a script refers to an object by its      *)
(* position.  A layout holds the positions of its children, in the order   *)
(* of the array it was given.  An attribute that was not set is 0 or "".   *)

NoUI == [nodes |-> <<>>]

NewObject(kind, text, children) ==
    [kind |-> kind, text |-> text, children |-> children,
     horizontal |-> FALSE, width |-> 0, height |-> 0, weight |-> 0,
     tag |-> "", action |-> "",
     checked |-> FALSE, selected |-> 0, items |-> <<>>, onChange |-> ""]

Objects == DOMAIN lay.nodes

\* The arrays of UI objects a script can pass: every sequence of distinct
\* objects it has created.
RECURSIVE ArraysOf(_)
ArraysOf(S) ==
    {<<>>} \cup UNION {{<<n>> \o rest : rest \in ArraysOf(S \ {n})} : n \in S}

\* An array of distinct objects the script has created.
IsArray(children) ==
    /\ \A i \in DOMAIN children : children[i] \in Objects
    /\ \A i, j \in DOMAIN children : children[i] = children[j] => i = j

Created(kind, text) ==
    \E n \in Objects : lay.nodes[n].kind = kind /\ lay.nodes[n].text = text

\* ui().text(text): a new text label.
UiText(text) ==
    /\ lay' = [lay EXCEPT !.nodes = Append(@, NewObject("text", text, <<>>))]
    /\ ret' = Void
    /\ UNCHANGED <<libs, store, bin, nextId, clock, evt, dlg, calls,
                   ntf, itn, host, wdg>>

\* ui().button(title): a new button.
UiButton(title) ==
    /\ lay' = [lay EXCEPT !.nodes = Append(@, NewObject("button", title, <<>>))]
    /\ ret' = Void
    /\ UNCHANGED <<libs, store, bin, nextId, clock, evt, dlg, calls,
                   ntf, itn, host, wdg>>

\* ui().edit(text): a new text editor.
UiEdit(text) ==
    /\ lay' = [lay EXCEPT !.nodes = Append(@, NewObject("edit", text, <<>>))]
    /\ ret' = Void
    /\ UNCHANGED <<libs, store, bin, nextId, clock, evt, dlg, calls,
                   ntf, itn, host, wdg>>

\* ui().checkbox(title, value): a new checkbox.
UiCheckbox(title, value) ==
    /\ lay' = [lay EXCEPT !.nodes =
                 Append(@, [NewObject("checkbox", title, <<>>)
                               EXCEPT !.checked = value])]
    /\ ret' = Void
    /\ UNCHANGED <<libs, store, bin, nextId, clock, evt, dlg, calls,
                   ntf, itn, host, wdg>>

\* ui().choiceBox(selected, items): a new choice box.
UiChoiceBox(selected, items) ==
    /\ lay' = [lay EXCEPT !.nodes =
                 Append(@, [NewObject("choiceBox", "", <<>>)
                               EXCEPT !.selected = selected, !.items = items])]
    /\ ret' = Void
    /\ UNCHANGED <<libs, store, bin, nextId, clock, evt, dlg, calls,
                   ntf, itn, host, wdg>>

\* ui().image(url): a new image.
UiImage(url) ==
    /\ lay' = [lay EXCEPT !.nodes = Append(@, NewObject("image", url, <<>>))]
    /\ ret' = Void
    /\ UNCHANGED <<libs, store, bin, nextId, clock, evt, dlg, calls,
                   ntf, itn, host, wdg>>

\* pages(children) that puts the pages object among its own children.
PagesHoldingItself(children) ==
    /\ IsArray(children)
    /\ lay' = [lay EXCEPT !.nodes =
                 Append(@, NewObject("pages", "",
                                     Append(children, Len(lay.nodes) + 1)))]
    /\ ret' = Void
    /\ UNCHANGED <<libs, store, bin, nextId, clock, evt, dlg, calls,
                   ntf, itn, host, wdg>>

\* ui().pages(children): the given objects on separate pages.
Pages(children) ==
    /\ IsArray(children)
    /\ lay' = [lay EXCEPT !.nodes = Append(@, NewObject("pages", "", children))]
    /\ ret' = Void
    /\ UNCHANGED <<libs, store, bin, nextId, clock, evt, dlg, calls,
                   ntf, itn, host, wdg>>

\* layout(children) whose children are in a single row from the start.
LayoutInRow(children) ==
    /\ IsArray(children)
    /\ lay' = [lay EXCEPT !.nodes =
                 Append(@, [NewObject("layout", "", children)
                               EXCEPT !.horizontal = TRUE])]
    /\ ret' = Void
    /\ UNCHANGED <<libs, store, bin, nextId, clock, evt, dlg, calls,
                   ntf, itn, host, wdg>>

\* ui().layout(children): a layout of the given objects, vertical by default.
Layout(children) ==
    /\ IsArray(children)
    /\ lay' = [lay EXCEPT !.nodes = Append(@, NewObject("layout", "", children))]
    /\ ret' = Void
    /\ UNCHANGED <<libs, store, bin, nextId, clock, evt, dlg, calls,
                   ntf, itn, host, wdg>>

\* A setter of UIBase on object n.
SetAttribute(n, attribute, value) ==
    /\ n \in Objects
    /\ lay' = [lay EXCEPT !.nodes[n][attribute] = value]
    /\ ret' = Void
    /\ UNCHANGED <<libs, store, bin, nextId, clock, evt, dlg, calls,
                   ntf, itn, host, wdg>>

\* UIBase.width(width)
Width(n, width) == SetAttribute(n, "width", width)

\* UIBase.height(height)
Height(n, height) == SetAttribute(n, "height", height)

\* UIBase.weight(weight)
Weight(n, weight) == SetAttribute(n, "weight", weight)

\* UIBase.tag(text)
Tag(n, text) == SetAttribute(n, "tag", text)

\* horizontal() that also puts the children in the reverse order.
HorizontalReversing(n) ==
    /\ n \in Objects
    /\ lay.nodes[n].kind = "layout"
    /\ lay' = [lay EXCEPT !.nodes[n].horizontal = TRUE,
                          !.nodes[n].children =
                              [i \in DOMAIN @ |-> @[Len(@) + 1 - i]]]
    /\ ret' = Void
    /\ UNCHANGED <<libs, store, bin, nextId, clock, evt, dlg, calls,
                   ntf, itn, host, wdg>>

\* UILayout.horizontal(): display the children horizontally.
Horizontal(n) ==
    /\ n \in Objects
    /\ lay.nodes[n].kind = "layout"
    /\ lay' = [lay EXCEPT !.nodes[n].horizontal = TRUE]
    /\ ret' = Void
    /\ UNCHANGED <<libs, store, bin, nextId, clock, evt, dlg, calls,
                   ntf, itn, host, wdg>>

\* Where the host puts the children of a layout: in a single column, one row
\* per child, or in a single row, one column per child.
Arrange(layout) ==
    [i \in DOMAIN layout.children |->
        IF layout.horizontal
        THEN [child |-> layout.children[i], row |-> 1, column |-> i]
        ELSE [child |-> layout.children[i], row |-> i, column |-> 1]]

\* What a callback of a button returns: true, false or nothing.
Returns == {"true", "false", "undefined"}

\* UIButton.action(callback)
Action(n, callback) ==
    /\ n \in Objects
    /\ lay.nodes[n].kind = "button"
    /\ lay' = [lay EXCEPT !.nodes[n].action = callback]
    /\ ret' = Void
    /\ UNCHANGED <<libs, store, bin, nextId, clock, evt, dlg, calls,
                   ntf, itn, host, wdg>>

\* UICheckbox.onChange(listener), UIChoiceBox.onChange(listener)
OnChange(n, listener) ==
    /\ n \in Objects
    /\ lay.nodes[n].kind \in {"checkbox", "choiceBox"}
    /\ lay' = [lay EXCEPT !.nodes[n].onChange = listener]
    /\ ret' = Void
    /\ UNCHANGED <<libs, store, bin, nextId, clock, evt, dlg, calls,
                   ntf, itn, host, wdg>>

-----------------------------------------------------------------------------
(* ts-memento.js: dialogKonfirmasi(callback) *)

\* The dialog a builder shows when only view(uiObject) was called on it.
ShownWithView(uiObject) ==
    [NoDialog EXCEPT !.pc = "shown", !.view = uiObject]

\* The function with the callback as the action of both buttons.
DialogKonfirmasiBothButtons(callback) ==
    /\ lay' = [lay EXCEPT !.nodes = @ \o
                 <<[NewObject("button", "Yes", <<>>) EXCEPT !.action = callback],
                   [NewObject("button", "No", <<>>) EXCEPT !.action = callback],
                   NewObject("layout", "", <<Len(lay.nodes) + 1, Len(lay.nodes) + 2>>)>>]
    /\ dlg' = ShownWithView(Len(lay.nodes) + 3)
    /\ host' = [host EXCEPT !.dialogs =
                   Append(@, DialogConfig(ShownWithView(Len(lay.nodes) + 3)))]
    /\ ret' = Void
    /\ UNCHANGED <<libs, store, bin, nextId, clock, evt, calls, ntf, itn, wdg>>

\* dialogKonfirmasi(callback):
\*   dialog().view(ui().layout([ui().button('Yes').action(callback),
\*                              ui().button('No')])).show()
\* The script creates the button 'Yes' and sets its action, creates the
\* button 'No', the layout of the two, and shows a new dialog with the
\* layout as its view.
DialogKonfirmasi(callback) ==
    /\ lay' = [lay EXCEPT !.nodes = @ \o
                 <<[NewObject("button", "Yes", <<>>) EXCEPT !.action = callback],
                   NewObject("button", "No", <<>>),
                   NewObject("layout", "", <<Len(lay.nodes) + 1, Len(lay.nodes) + 2>>)>>]
    /\ dlg' = ShownWithView(Len(lay.nodes) + 3)
    /\ host' = [host EXCEPT !.dialogs =
                   Append(@, DialogConfig(ShownWithView(Len(lay.nodes) + 3)))]
    /\ ret' = Void
    /\ UNCHANGED <<libs, store, bin, nextId, clock, evt, calls, ntf, itn, wdg>>

-----------------------------------------------------------------------------
(* The widget: the host runs its script after events such as displaying,  *)
(* refreshing or syncing libraries, and the user clicks its buttons.      *)

RunEvents == {"display", "refresh", "sync"}

\* inits counts the runs of the code under `if (_initWidget)`, counter is the
\* variable of the script that code sets to 0 and every run increments.
NoWidget == [loaded |-> FALSE, event |-> "", runs |-> 0, inits |-> 0,
             counter |-> 0, refreshes |-> 0]

\* _initWidget that is true on every run.
_initWidgetAlways == TRUE

\* _initWidget: true when the script runs for the first time.
_initWidget == ~wdg.loaded

\* One run of the widget script:
\*   var counter; if (_initWidget) { counter = 0; } counter++;
RunWidget(event) ==
    /\ wdg' = [wdg EXCEPT !.loaded = TRUE,
                          !.event = event,
                          !.runs = @ + 1,
                          !.inits = IF _initWidget THEN @ + 1 ELSE @,
                          !.counter = (IF _initWidget THEN 0 ELSE @) + 1]
    /\ ret' = Void
    /\ UNCHANGED <<libs, store, bin, nextId, clock, evt, dlg, calls,
                   ntf, itn, host, lay>>

\* A click that refreshes the UI whatever the callback returns.
ClickButtonRefreshing(n, result) ==
    /\ n \in Objects
    /\ lay.nodes[n].kind = "button"
    /\ IF lay.nodes[n].action # ""
       THEN /\ calls' = Append(calls, [button |-> lay.nodes[n].text,
                                       callback |-> lay.nodes[n].action])
            /\ wdg' = [wdg EXCEPT !.refreshes = @ + 1]
       ELSE UNCHANGED <<calls, wdg>>
    /\ ret' = Void
    /\ UNCHANGED <<libs, store, bin, nextId, clock, evt, dlg,
                   ntf, itn, host, lay>>

\* The user clicks button n: the host calls the function set by action(),
\* which returns `result`, and refreshes the UI if it returned true.
ClickButton(n, result) ==
    /\ n \in Objects
    /\ lay.nodes[n].kind = "button"
    /\ IF lay.nodes[n].action # ""
       THEN /\ calls' = Append(calls, [button |-> lay.nodes[n].text,
                                       callback |-> lay.nodes[n].action])
            /\ wdg' = [wdg EXCEPT !.refreshes =
                          IF result = "true" THEN @ + 1 ELSE @]
       ELSE UNCHANGED <<calls, wdg>>
    /\ ret' = Void
    /\ UNCHANGED <<libs, store, bin, nextId, clock, evt, dlg,
                   ntf, itn, host, lay>>

-----------------------------------------------------------------------------
(* Initial state: both libraries exist and are open to the script, no entry *)
(* has been created, no event is running and no dialog is built.          *)

NoEvent == [pc |-> "idle", phase |-> "", id |-> 0, clone |-> NoFields,
            cancelled |-> FALSE]

BothLibraries ==
    [l \in LibIds |->
        [name |-> IF l = "lib_1" THEN "Item Penjualan" ELSE "Pesanan Penjualan",
         present |-> TRUE, permitted |-> TRUE]]

Init ==
    /\ libs = BothLibraries
    /\ store = <<>>
    /\ bin = {}
    /\ nextId = 1
    /\ clock = 0
    /\ ret = Void
    /\ evt = NoEvent
    /\ dlg = NoDialog
    /\ calls = <<>>
    /\ ntf = NoNotification
    /\ itn = NoIntent
    /\ host = NoOutput
    /\ lay = NoUI
    /\ wdg = NoWidget

\* The values scripts give to create() and set().
CreateValues ==
    {<<>>} \cup {[k \in {"Catatan"} |-> Str("Prosesor")]}

Next ==
    \/ \E l \in LibIds, values \in CreateValues :
          Len(store) < MaxEntries /\ Create(l, values, 1)
    \/ \E l \in LibIds : CreateFails(l)
    \/ \E id \in Ids : Set(id, "Catatan", Str("Mobo"))
    \/ \E id \in Ids : Link(id, "Pesanan Penjualan", 1)
    \/ \E id \in Ids : Unlink(id, "Pesanan Penjualan", 1)
    \/ \E id \in Ids : Trash(id)
    \/ \E id \in Ids : Untrash(id)
    \/ \E id \in Ids : Len(store) < MaxEntries /\ Duplicate(id, 1)

Spec == Init /\ [][Next]_vars

\* Creation and the Recycle Bin only: what the order of entries() depends on.
NextOrder ==
    \/ \E l \in LibIds, dt \in {0, 1} :
          Len(store) < MaxOrdered /\ Create(l, <<>>, dt)
    \/ \E id \in Ids, dt \in {0, 1} : Len(store) < MaxOrdered /\ Duplicate(id, dt)
    \/ \E id \in Ids : Trash(id)
    \/ \E id \in Ids : Untrash(id)

SpecOrder == Init /\ [][NextOrder]_vars

\* Scripts of events on the entries of the current library, lib_1.
NextEvent ==
    \/ Len(store) < MaxEntries /\ Create("lib_1", <<>>, 1)
    \/ \E id \in Ids : Set(id, "Catatan", Str("Prosesor"))
    \/ \E phase \in Phases, id \in Ids : BeginEvent(phase, id)
    \/ Len(store) < MaxEntries /\ BeginCreateEvent("lib_1", <<>>)
    \/ EntrySet("Catatan", Str("Mobo"))
    \/ EntryLink("Pesanan Penjualan", 1)
    \/ EntryUnlink("Pesanan Penjualan", 1)
    \/ Cancel
    \/ EndScript("lib_1", 1)

SpecEvent == Init /\ [][NextEvent]_vars

\* One script of an event at a time, and every call made is a call of that
\* script: on the clone, on the library, on a dialog, cancel() and exit().
NextScript ==
    \/ \E phase \in Phases, id \in Ids : BeginEvent(phase, id)
    \/ Len(store) < MaxEntries /\ BeginCreateEvent("lib_1", <<>>)
    \/ EntrySet("Catatan", Str("Mobo"))
    \/ Cancel
    \/ Running /\ Len(store) < MaxEntries /\ Create("lib_1", <<>>, 1)
    \/ \E id \in Ids : Running /\ Set(id, "Catatan", Str("Prosesor"))
    \/ Running /\ Dialog
    \/ Running /\ Show
    \/ Exit("lib_1", 1)
    \/ EndScript("lib_1", 1)

SpecScript == Init /\ [][NextScript]_vars

\* The values of each kind a script gives to create(): texts, timestamps as
\* new Date(...).getTime() returns them, arrays of entries.
ValuesOf(k) ==
    CASE FieldKind(k) = "text" -> {Str("Prosesor"), Str("Mobo")}
      [] FieldKind(k) = "date" -> {Num(ms) : ms \in DateMillis}
      [] FieldKind(k) = "linkToEntry" -> {Ents(<<>>)} \cup {Ents(<<x>>) : x \in Ids}
      [] FieldKind(k) = "number" -> {Num(42), Num(5)}
      [] FieldKind(k) = "checkbox" -> {Bool(TRUE), Bool(FALSE)}
      [] FieldKind(k) = "multipleChoice" ->
            {Strs(<<"Work", "Important", "Project">>), Strs(<<"Work">>)}
      [] FieldKind(k) = "linkToFile" -> {Strs(<<"/sdcard/invoice.pdf">>)}
      [] FieldKind(k) = "image" -> {Imgs(<<"https://example.com/myimage.png">>)}

\* The fields of the library of ts-memento.js, and a Date field.
SalesFields == {"Catatan", "DueDate", "Pesanan Penjualan"}

\* Every name -> value mapping over a subset of these fields.
ValueMaps ==
    UNION {{m \in [K -> UNION {ValuesOf(k) : k \in K}] :
              \A k \in K : m[k] \in ValuesOf(k)} : K \in SUBSET SalesFields}

\* create() with every mapping, in both libraries.
NextRoundTrip ==
    \E l \in LibIds, values \in ValueMaps :
        Len(store) < MaxEntries /\ Create(l, values, 1)

SpecRoundTrip == Init /\ [][NextRoundTrip]_vars

\* The mappings that give no field, one field, or every field a value.
TypedMaps ==
    {<<>>}
    \cup UNION {{[k \in {f} |-> v] : v \in ValuesOf(f)} : f \in FieldNames}
    \cup {[k \in FieldNames |->
               IF ValuesOf(k) \subseteq {DefaultValue(k)} THEN DefaultValue(k)
               ELSE CHOOSE v \in ValuesOf(k) : v # DefaultValue(k)]}

\* A script creates one entry and sets the fields of every kind, each to
\* values of the type of the field.
NextTypes ==
    \/ \E l \in LibIds, values \in TypedMaps : Ids = {} /\ Create(l, values, 1)
    \/ \E id \in Ids, k \in FieldNames : \E v \in ValuesOf(k) : Set(id, k, v)

SpecTypes == Init /\ [][NextTypes]_vars

\* The libraries a host may hold: each exists or not, is open to the script
\* or not, and no two have the same name.
LibConfigs ==
    {c \in [LibIds -> [name : LibNames, present : BOOLEAN, permitted : BOOLEAN]] :
        \A a, b \in LibIds : a # b => c[a].name # c[b].name}

InitLookup ==
    /\ libs \in LibConfigs
    /\ store = <<>>
    /\ bin = {}
    /\ nextId = 1
    /\ clock = 0
    /\ ret = Void
    /\ evt = NoEvent
    /\ dlg = NoDialog
    /\ calls = <<>>
    /\ ntf = NoNotification
    /\ itn = NoIntent
    /\ host = NoOutput
    /\ lay = NoUI
    /\ wdg = NoWidget

NextLookup ==
    \/ \E name \in LibNames \cup {"nonexistent"} : LibByName(name)
    \/ \E id \in LibIds \cup {"lib_projects_001"} : LibById(id)

SpecLookup == InitLookup /\ [][NextLookup]_vars

\* Lookups by name and by ID between renames of the libraries.
NextRename ==
    \/ \E l \in LibIds, name \in LibNames : Rename(l, name)
    \/ \E name \in LibNames : LibByName(name)
    \/ \E id \in LibIds : LibById(id)

SpecRename == InitLookup /\ [][NextRename]_vars

\* Entries of both libraries and links between them: to the first two
\* entries in one Link to Entry field, to the first in the other.
NextLinks ==
    \/ \E l \in LibIds : Len(store) < MaxEntries /\ Create(l, <<>>, 1)
    \/ \E id \in Ids, x \in Ids \cap {1, 2} : Link(id, "Pesanan Penjualan", x)
    \/ \E id \in Ids, x \in Ids \cap {1, 2} : Unlink(id, "Pesanan Penjualan", x)
    \/ \E id \in Ids : Link(id, "Project", 1)
    \/ \E id \in Ids : Unlink(id, "Project", 1)

SpecLinks == Init /\ [][NextLinks]_vars

\* One entry is created and every other entry is a duplicate, of it or of a
\* duplicate; the script sets and links fields of the original and of the
\* duplicates, before and after duplicating.
NextDuplicate ==
    \/ \E l \in LibIds, values \in CreateValues :
          Ids = {} /\ Create(l, values, 1)
    \/ \E id \in Ids : Len(store) < MaxEntries /\ Duplicate(id, 1)
    \/ \E id \in Ids : Set(id, "Catatan", Str("Mobo"))
    \/ \E id \in Ids : Set(id, "Quantity", Num(42))
    \/ \E id \in Ids : Link(id, "Pesanan Penjualan", 1)

SpecDuplicate == Init /\ [][NextDuplicate]_vars

\* The ids a script asks findById for: those of the entries there can be,
\* and one no entry has.
QueryIds == 1 .. MaxEntries + 1

\* Entries are created in both libraries and moved to and from the Recycle
\* Bin, and a script looks ids up in either library.
NextFind ==
    \/ \E l \in LibIds, dt \in {0, 1} :
          Len(store) < MaxEntries /\ Create(l, <<>>, dt)
    \/ \E id \in Ids : Trash(id)
    \/ \E id \in Ids : Untrash(id)
    \/ \E l \in LibIds, id \in QueryIds : FindById(l, id)

SpecFind == Init /\ [][NextFind]_vars

\* Scripts of the events on entries, of the opening of the edit card of a
\* new entry, and scripts run outside those events (of a widget, of a
\* button), each calling entry() and entryDefault().
NextAccess ==
    \/ Len(store) < MaxEntries /\ Create("lib_1", <<>>, 1)
    \/ \E phase \in Phases, id \in Ids : BeginEvent(phase, id)
    \/ Len(store) < MaxEntries /\ BeginCreateEvent("lib_1", <<>>)
    \/ BeginOpenCreateEvent("lib_1")
    \/ Entry
    \/ EntryDefault
    \/ entryAvailable /\ EntrySet("Catatan", Str("Mobo"))
    \/ EntryDefaultSet("Catatan", Str("Prosesor"))
    \/ EndScript("lib_1", 1)

SpecAccess == Init /\ [][NextAccess]_vars

\* Any libraries; entries are created in those open to the script, and
\* buatContohItemPenjualan() runs in the script of an event on one of them.
NextSample ==
    \/ \E l \in LibIds : Len(store) < MaxEntries /\ Create(l, <<>>, 1)
    \/ \E phase \in Phases, id \in Ids : BeginEvent(phase, id)
    \/ \E dt \in {0, 1} :
          Len(store) <= MaxEntries /\ BuatContohItemPenjualan(dt)
    \/ \E l \in LibIds : EndScript(l, 1)

SpecSample == InitLookup /\ [][NextSample]_vars

\* Scripts call dialogKonfirmasi and the user clicks the buttons of the
\* dialogs it has shown.
NextConfirm ==
    \/ \E cb \in Callbacks :
          Len(host.dialogs) < MaxDialogs /\ DialogKonfirmasi(cb)
    \/ \E n \in Objects, result \in Returns :
          Len(calls) < MaxClicks /\ ClickButton(n, result)

SpecConfirm == Init /\ [][NextConfirm]_vars

\* A script builds and shows a dialog and the user clicks its buttons.
NextDialog ==
    \/ Dialog
    \/ \E cb \in Callbacks : PositiveButton("Yes", cb)
    \/ \E cb \in Callbacks : NegativeButton("No", cb)
    \/ \E cb \in Callbacks : NeutralButton("Later", cb)
    \/ \E b \in BOOLEAN : AutoDismiss(b)
    \/ Show
    \/ \E b \in Buttons, result \in BOOLEAN : Len(calls) < MaxClicks /\ Click(b, result)

SpecDialog == Init /\ [][NextDialog]_vars

\* No builder has been created.
NoBuilder == dlg.pc = "none" /\ ntf.pc = "none" /\ itn.pc = "none"

DialogTitles == {"Confirm Action", "Konfirmasi"}
NotificationTitles == {"New Message", "Pesanan baru"}
DataUris == {"smsto:+1234567890", "content://com.android.calendar/events"}

\* A script creates one builder, calls its setters in any order and any
\* number of times, and shows or sends it.
NextBuilder ==
    \/ NoBuilder /\ Dialog
    \/ \E text \in DialogTitles : Title(text)
    \/ Text("Are you sure you want to proceed?")
    \/ View("form")
    \/ PositiveButton("Yes", "cb")
    \/ NegativeButton("No", "other")
    \/ NeutralButton("Later", "cb")
    \/ AutoDismiss(FALSE)
    \/ Show
    \/ NoBuilder /\ Notification
    \/ NotifyId(1)
    \/ \E text \in NotificationTitles : NotifyTitle(text)
    \/ NotifyText("You have received a new message")
    \/ NotifyBigText("Long message content here...")
    \/ NotifySmallIcon("nova:add-circle-1.png")
    \/ NotifyLargeIcon("https://example.com/myimage.png")
    \/ NotifyAlertOnce
    \/ NotifyShow
    \/ \E action \in IntentActions : NoBuilder /\ Intent(action)
    \/ \E uri \in DataUris : Data(uri)
    \/ Extra("sms_body", Str("Hello from Memento!"))
    \/ ExtraLong("beginTime", 86400000)
    \/ MimeType("text/plain")
    \/ Send

SpecBuilder == Init /\ [][NextBuilder]_vars

Labels == {"This is a text label", "Hello"}

NoLayout == \A n \in Objects : lay.nodes[n].kind # "layout"

\* A script creates two text labels and one layout of any array of the
\* objects it has, and calls the setters of UIBase and horizontal() on them.
NextLayout ==
    \/ \E text \in Labels : ~Created("text", text) /\ UiText(text)
    \/ \E children \in ArraysOf(Objects) : NoLayout /\ Layout(children)
    \/ \E n \in Objects : Width(n, 100)
    \/ \E n \in Objects : Height(n, 50)
    \/ \E n \in Objects : Weight(n, 1)
    \/ \E n \in Objects : Tag(n, "name")
    \/ \E n \in Objects : Horizontal(n)

SpecLayout == Init /\ [][NextLayout]_vars

\* A script creates objects of every kind, layouts and pages of any array
\* of the objects it has, and calls the setters of layouts, buttons,
\* checkboxes and choice boxes on them.
NextTree ==
    \/ Len(lay.nodes) < MaxObjects /\ UiText("Hello")
    \/ Len(lay.nodes) < MaxObjects /\ UiButton("Click me!")
    \/ Len(lay.nodes) < MaxObjects /\ UiEdit("Type your text here")
    \/ Len(lay.nodes) < MaxObjects /\ UiCheckbox("Enable notifications", TRUE)
    \/ Len(lay.nodes) < MaxObjects
          /\ UiChoiceBox(0, <<"Option 1", "Option 2", "Option 3">>)
    \/ Len(lay.nodes) < MaxObjects /\ UiImage("https://example.com/myimage.png")
    \/ \E children \in ArraysOf(Objects) :
          Len(lay.nodes) < MaxObjects /\ Layout(children)
    \/ \E children \in ArraysOf(Objects) :
          Len(lay.nodes) < MaxObjects /\ Pages(children)
    \/ \E n \in Objects : Horizontal(n)
    \/ \E n \in Objects : Action(n, "cb")
    \/ \E n \in Objects : OnChange(n, "other")

SpecTree == Init /\ [][NextTree]_vars

ButtonTitles == {"Click me!", "Add Entry"}

\* A widget: its script creates buttons and sets their actions, the host
\* runs the script after each event and the user clicks the buttons.
NextWidget ==
    \/ \E title \in ButtonTitles : ~Created("button", title) /\ UiButton(title)
    \/ \E n \in Objects, cb \in Callbacks : Action(n, cb)
    \/ \E n \in Objects, result \in Returns :
          Len(calls) < MaxClicks /\ ClickButton(n, result)
    \/ \E event \in RunEvents : wdg.runs < MaxRuns /\ RunWidget(event)

SpecWidget == Init /\ [][NextWidget]_vars

-----------------------------------------------------------------------------
(* C5 - C9: the entries of a library *)

\* C5: trash() leaves the entry in the Recycle Bin (deleted is true), untrash()
\* leaves it out of it (deleted is false), and a step that changes the deleted
\* attribute of an entry is a trash() or an untrash() of that entry.
SoftDelete ==
    [][\A id \in Ids :
          /\ Trash(id) => deleted(EntryOf(id))'
          /\ Untrash(id) => ~deleted(EntryOf(id))'
          /\ (deleted(EntryOf(id))' # deleted(EntryOf(id)))
                => (Trash(id) \/ Untrash(id))]_vars

SoftDeleteWitness ==
    \E a, b \in Range(store) : deleted(a) /\ ~deleted(b)

ListedIn(es, id) == \E i \in DOMAIN es : es[i].id = id

Listed(l, id) == ListedIn(entries(l), id)

\* C6: an entry that exists is still stored after every step, findById still
\* returns it for its id and entries() still lists it, also when it is in the
\* Recycle Bin.
NeverHardDeleted ==
    [][\A l \in LibIds :
          \E after \in {entries(l)'} :
             \A e \in OfLibrary(l) :
                /\ e.id \in Ids'
                /\ findById(l, e.id)' = e.id
                /\ ListedIn(after, e.id)]_vars

NeverHardDeletedWitness ==
    \E e \in Range(store) :
        deleted(e) /\ Listed(e.lib, e.id) /\ findById(e.lib, e.id) = e.id

\* C7: entries() holds every entry of the library exactly once, sorted by
\* creation time with the newest first.
EntriesNewestFirst ==
    \A l \in LibIds :
        /\ Range(entries(l)) = OfLibrary(l)
        /\ Len(entries(l)) = Cardinality(OfLibrary(l))
        /\ \A i, j \in DOMAIN entries(l) :
              i < j => entries(l)[i].creationTime >= entries(l)[j].creationTime

EntriesNewestFirstWitness ==
    \E l \in LibIds :
        /\ Len(entries(l)) = 3
        /\ entries(l)[1].creationTime > entries(l)[2].creationTime
        /\ entries(l)[2].creationTime = entries(l)[3].creationTime

\* C8: lastEntry() is an entry of the library no other entry of it was created
\* after, firstEntry() one no other entry was created before, and each is null
\* exactly when the library has no entry.
LastAndFirstEntry ==
    \A l \in LibIds :
        /\ lastEntry(l) = 0 <=> OfLibrary(l) = {}
        /\ firstEntry(l) = 0 <=> OfLibrary(l) = {}
        /\ OfLibrary(l) # {} =>
              /\ findById(l, lastEntry(l)) = lastEntry(l)
              /\ findById(l, firstEntry(l)) = firstEntry(l)
              /\ \A e \in OfLibrary(l) :
                    /\ e.creationTime <= EntryOf(lastEntry(l)).creationTime
                    /\ e.creationTime >= EntryOf(firstEntry(l)).creationTime

LastAndFirstEntryWitness ==
    /\ \E l \in LibIds :
          /\ Cardinality(OfLibrary(l)) >= 2
          /\ EntryOf(lastEntry(l)).creationTime > EntryOf(firstEntry(l)).creationTime
    /\ \E l \in LibIds : lastEntry(l) = 0 /\ firstEntry(l) = 0

\* C9: create() adds exactly one entry to its library and none to another, the
\* entry returned has an id no earlier entry has, findById returns it and
\* entries() lists it, it carries every given value, and every earlier entry
\* and the Recycle Bin are unchanged; a create() that fails changes nothing.
CreateIsAtomic ==
    [][\A l \in LibIds :
          /\ \A values \in CreateValues, dt \in {0, 1} :
                Create(l, values, dt) =>
                  /\ ~ret'.err
                  /\ ret'.id \notin Ids
                  /\ Cardinality(OfLibrary(l))' = Cardinality(OfLibrary(l)) + 1
                  /\ \A o \in LibIds \ {l} : OfLibrary(o)' = OfLibrary(o)
                  /\ OfLibrary(l) \subseteq OfLibrary(l)'
                  /\ \E new \in Ids' :
                        /\ new = ret'.id
                        /\ findById(l, new)' = new
                        /\ Listed(l, new)'
                        /\ \A k \in DOMAIN values :
                              EntryOf(new)'.fields[k] = values[k]
                  /\ bin' = bin
          /\ CreateFails(l) =>
                /\ ret'.err
                /\ store' = store
                /\ bin' = bin]_vars

CreateIsAtomicWitness ==
    /\ ret.op = "create" /\ ~ret.err
    /\ Len(store) = 2
    /\ EntryOf(ret.id).fields["Catatan"] = Str("Prosesor")

-----------------------------------------------------------------------------
(* C3, C4: the clone of the current entry *)

ChangesClone ==
    \/ \E k \in FieldNames, v \in {Str("Mobo")} : EntrySet(k, v)
    \/ \E k \in FieldNames, x \in Ids : EntryLink(k, x) \/ EntryUnlink(k, x)

EndsScript == \E l \in LibIds, dt \in {0, 1} : EndScript(l, dt)

\* C3: a set, link or unlink on the clone of entry() changes no stored entry,
\* and when cancel() was called the end of the script discards the clone: the
\* stored entries and the Recycle Bin are what they were.
CancelDiscardsClone ==
    [][/\ ChangesClone => (store' = store /\ bin' = bin)
       /\ (EndsScript /\ evt.cancelled) => (store' = store /\ bin' = bin)]_vars

CancelDiscardsCloneWitness ==
    /\ evt.pc = "discarded" /\ evt.phase = "beforeSave"
    /\ evt.clone["Catatan"] = Str("Mobo")
    /\ evt.clone["Pesanan Penjualan"] = Ents(<<1>>)
    /\ EntryOf(evt.id).fields["Catatan"] # Str("Mobo")
    /\ EntryOf(evt.id).fields["Pesanan Penjualan"] = Ents(<<>>)

\* C4: a change of the clone leaves the stored entry as it is, and the save
\* that follows the script makes the clone the actual entry: every field of
\* the stored entry then has the value the clone has, and no other entry
\* changes.
CloneBecomesActual ==
    [][/\ ChangesClone => store' = store
       /\ (EndsScript /\ evt.phase = "beforeSave" /\ evt'.pc = "saved") =>
             /\ EntryOf(evt.id)'.fields = evt.clone
             /\ \A e \in Range(store) : e.id # evt.id => e \in Range(store')]_vars

CloneBecomesActualWitness ==
    /\ evt.pc = "saved" /\ evt.phase = "beforeSave"
    /\ evt.clone["Catatan"] = Str("Mobo")
    /\ evt.clone["Pesanan Penjualan"] = Ents(<<1>>)
    /\ EntryOf(evt.id).fields = evt.clone

-----------------------------------------------------------------------------
(* C2: library lookups *)

Known(l) == l \in LibIds /\ libs[l].present /\ libs[l].permitted

\* C2: libByName and libById never end in an error; they return null exactly
\* when no library with that name / id exists and is open to the script, and
\* otherwise the handle of the library that has that name / id.
LookupReturnsNull ==
    /\ ret.op \in {"libByName", "libById"} => ~ret.err
    /\ ret.op = "libByName" =>
          /\ ret.lib = NoLibrary <=> ~\E l \in LibIds : Known(l) /\ libs[l].name = ret.arg
          /\ ret.lib # NoLibrary => Known(ret.lib) /\ libs[ret.lib].name = ret.arg
    /\ ret.op = "libById" =>
          /\ ret.lib = NoLibrary <=> ~Known(ret.arg)
          /\ ret.lib # NoLibrary => ret.lib = ret.arg
    /\ (ret.op = "libByName" /\ ret.arg = "nonexistent") => ret.lib = NoLibrary

LookupReturnsNullWitness ==
    /\ ret.op = "libByName" /\ ret.arg = "Item Penjualan" /\ ret.lib = NoLibrary
    /\ \E l \in LibIds :
          libs[l].present /\ libs[l].name = "Item Penjualan" /\ ~libs[l].permitted

-----------------------------------------------------------------------------
(* C10: the callback of a dialog button *)

Clicks(b) == \E result \in BOOLEAN : Click(b, result)

\* C10: a click on a button of the shown dialog invokes the callback given for
\* that button exactly once, and nothing else invokes a callback: not
\* positiveButton(), not show(), not a click on another button.
CallbackOncePerClick ==
    [][/\ \A b \in Buttons :
             Clicks(b) => calls' = Append(calls, [button |-> b,
                                    callback |-> dlg.buttons[b].callback])
       /\ calls' # calls => \E b \in Buttons : Clicks(b)
       /\ (Clicks("negative") \/ Clicks("neutral")) =>
             \A i \in DOMAIN calls' \ DOMAIN calls : calls'[i].button # "positive"]_vars

CallbackOncePerClickWitness ==
    /\ dlg.pc = "closed"
    /\ dlg.buttons["positive"] = [text |-> "Yes", callback |-> "cb"]
    /\ dlg.buttons["negative"] = [text |-> "No", callback |-> "other"]
    /\ calls = <<[button |-> "positive", callback |-> "cb"]>>

-----------------------------------------------------------------------------
(* C1: create(values).field(k) *)

Creates(l, values) == \E dt \in {0, 1} : Create(l, values, dt)

-----------------------------------------------------------------------------
(* C11, C12: the builders of dialogs, notifications and intents *)

Delivers == Show \/ NotifyShow \/ Send

NotificationAttributes == DOMAIN NotificationConfig(NoNotification)

\* C11: a step that hands the host anything is a show() or a send(); show()
\* and send() hand it, in that one step, one dialog, notification or intent
\* that carries exactly the configuration the builder holds; and a setter
\* changes the one attribute it is called for, in the builder only.
BuildersApplyAtomically ==
    [][/\ host' # host => Delivers
       /\ Show => host' = [host EXCEPT !.dialogs = Append(@, DialogConfig(dlg))]
       /\ NotifyShow =>
             host' = [host EXCEPT !.notifications =
                                     Append(@, NotificationConfig(ntf))]
       /\ Send => host' = [host EXCEPT !.intents = Append(@, IntentConfig(itn))]
       /\ \A text \in DialogTitles :
             Title(text) =>
                DialogConfig(dlg') = [DialogConfig(dlg) EXCEPT !.title = text]
       /\ \A b \in Buttons, text \in {"Yes", "No", "Later"}, cb \in Callbacks :
             AddButton(b, text, cb) =>
                DialogConfig(dlg') =
                   [DialogConfig(dlg) EXCEPT
                       !.buttons[b] = [text |-> text, callback |-> cb]]
       /\ \A a \in NotificationAttributes \ {"id", "alertOnce"},
             v \in NotificationTitles \cup {"nova:add-circle-1.png"} :
             NotifySet(a, v) =>
                NotificationConfig(ntf') =
                   [NotificationConfig(ntf) EXCEPT ![a] = v]
       /\ \A uri \in DataUris :
             Data(uri) =>
                IntentConfig(itn') = [IntentConfig(itn) EXCEPT !.data = uri]
       /\ \A key \in ExtraKeys, v \in {Str("Hello from Memento!"), Num(86400000)} :
             Extra(key, v) =>
                IntentConfig(itn') = [IntentConfig(itn) EXCEPT !.extras[key] = v]]_vars

BuildersApplyAtomicallyWitness ==
    /\ dlg.pc = "shown"
    /\ host.dialogs =
          <<[title |-> "Konfirmasi",
             text |-> "Are you sure you want to proceed?",
             view |-> "form",
             buttons |-> [b \in Buttons |->
                           IF b = "positive"
                           THEN [text |-> "Yes", callback |-> "cb"]
                           ELSE NoButton],
             autoDismiss |-> FALSE]>>

\* C12: a builder whose show() was called has put exactly one dialog or
\* notification on display, with the title, text, buttons and icons the
\* builder holds; one whose show() was not called has put none.
ShowConsumesOnce ==
    /\ Len(host.dialogs) = IF dlg.pc \in {"shown", "closed"} THEN 1 ELSE 0
    /\ dlg.pc \in {"shown", "closed"} => host.dialogs[1] = DialogConfig(dlg)
    /\ Len(host.notifications) = IF ntf.pc = "shown" THEN 1 ELSE 0
    /\ ntf.pc = "shown" => host.notifications[1] = NotificationConfig(ntf)

ShowConsumesOnceWitness ==
    /\ ntf.pc = "shown"
    /\ host.notifications =
          <<[id |-> 1, title |-> "New Message",
             text |-> "You have received a new message",
             bigText |-> "", smallIcon |-> "nova:add-circle-1.png",
             largeIcon |-> "", alertOnce |-> TRUE]>>
    /\ host.dialogs = <<>>

-----------------------------------------------------------------------------
(* C13, C14: layouts *)

\* C13: horizontal() on a layout leaves the layout horizontal and changes
\* nothing else: the layout has the same children in the same order and the
\* same width, height, weight and tag, every other object is what it was, and
\* no object is added or removed.
HorizontalOnlyOrientation ==
    [][\A n \in Objects :
          Horizontal(n) =>
             /\ Len(lay'.nodes) = Len(lay.nodes)
             /\ lay'.nodes[n].horizontal
             /\ lay'.nodes[n].children = lay.nodes[n].children
             /\ \A a \in {"kind", "text", "width", "height", "weight", "tag"} :
                   lay'.nodes[n][a] = lay.nodes[n][a]
             /\ \A m \in Objects \ {n} : lay'.nodes[m] = lay.nodes[m]]_vars

HorizontalOnlyOrientationWitness ==
    \E n \in Objects :
        /\ lay.nodes[n].kind = "layout" /\ lay.nodes[n].horizontal
        /\ lay.nodes[n].children = <<2, 1>>
        /\ lay.nodes[n].weight = 1 /\ lay.nodes[n].height = 50
        /\ lay.nodes[1].width = 100 /\ lay.nodes[2].tag = "name"

\* The children are in one column, child i of the array in row i.
SingleColumn(layout) ==
    /\ Len(Arrange(layout)) = Len(layout.children)
    /\ \A i \in DOMAIN layout.children :
          Arrange(layout)[i] = [child |-> layout.children[i], row |-> i, column |-> 1]

\* The children are in one row, child i of the array in column i.
SingleRow(layout) ==
    /\ Len(Arrange(layout)) = Len(layout.children)
    /\ \A i \in DOMAIN layout.children :
          Arrange(layout)[i] = [child |-> layout.children[i], row |-> 1, column |-> i]

\* C14: layout(children) gives a layout of exactly the given children, placed
\* in a single column in the order of the array; the placement of a layout
\* changes only when horizontal() is called on it, and from then on the
\* children are in a single row in the same order.
LayoutArrangement ==
    [][/\ Len(lay'.nodes) > Len(lay.nodes) =>
             \A children \in ArraysOf(Objects) :
                Layout(children) =>
                   /\ lay'.nodes[Len(lay'.nodes)].children = children
                   /\ SingleColumn(lay'.nodes[Len(lay'.nodes)])
       /\ \A n \in Objects :
             /\ Horizontal(n) => SingleRow(lay'.nodes[n])
             /\ (lay.nodes[n].kind = "layout" /\
                 Arrange(lay'.nodes[n]) # Arrange(lay.nodes[n])) => Horizontal(n)
             /\ (lay.nodes[n].kind = "layout" /\ lay.nodes[n].horizontal) =>
                   SingleRow(lay'.nodes[n])]_vars

LayoutArrangementWitness ==
    \E n \in Objects :
        /\ lay.nodes[n].kind = "layout"
        /\ lay.nodes[n].children = <<2, 1>>
        /\ Arrange(lay.nodes[n]) = <<[child |-> 2, row |-> 1, column |-> 1],
                                     [child |-> 1, row |-> 1, column |-> 2]>>

-----------------------------------------------------------------------------
(* C15: autoDismiss *)

\* C15: a new dialog closes automatically and autoDismiss(v) sets whether it
\* does; a click on a button closes a dialog that closes automatically, and
\* closes a dialog with autoDismiss(false) exactly when the callback of the
\* button returned true, leaving it shown otherwise.
AutoDismissControlsClosing ==
    [][/\ Dialog => dlg'.autoDismiss
       /\ \A v \in BOOLEAN : AutoDismiss(v) => dlg'.autoDismiss = v
       /\ \A b \in Buttons, result \in BOOLEAN :
             Click(b, result) =>
                /\ dlg.autoDismiss => dlg'.pc = "closed"
                /\ ~dlg.autoDismiss => (dlg'.pc = "closed" <=> result)
                /\ (~dlg.autoDismiss /\ ~result) => dlg'.pc = "shown"]_vars

AutoDismissControlsClosingWitness ==
    /\ dlg.pc = "shown" /\ ~dlg.autoDismiss
    /\ Len(calls) = 2
    /\ calls[1].button = "positive" /\ calls[2].button = "negative"

-----------------------------------------------------------------------------
(* C16, C19: widgets *)

\* C16: _initWidget is true as long as the script of the widget has not run
\* and false once it has; after any number of runs, whatever their events,
\* the code under `if (_initWidget)` has run exactly once and the counter it
\* initialises has counted every run.
InitWidgetOnce ==
    /\ wdg.runs = 0 => (_initWidget /\ wdg.inits = 0)
    /\ wdg.runs >= 1 => (~_initWidget /\ wdg.inits = 1 /\ wdg.counter = wdg.runs)

InitWidgetOnceWitness ==
    /\ wdg.runs = 3 /\ wdg.inits = 1 /\ wdg.counter = 3
    /\ wdg.event = "sync"

ClicksButton(n) == \E result \in Returns : ClickButton(n, result)

\* C19: a click on a button calls the function given to action() of that
\* button once, and no other step calls a function; the UI is refreshed in
\* the step of a click whose function returned true, and in no other step.
ActionCalledOnClick ==
    [][/\ \A n \in Objects, result \in Returns :
             ClickButton(n, result) =>
                /\ lay.nodes[n].action # "" =>
                      calls' = Append(calls, [button |-> lay.nodes[n].text,
                                              callback |-> lay.nodes[n].action])
                /\ lay.nodes[n].action = "" => calls' = calls
                /\ wdg'.refreshes =
                      IF lay.nodes[n].action # "" /\ result = "true"
                      THEN wdg.refreshes + 1 ELSE wdg.refreshes
       /\ calls' # calls => \E n \in Objects : ClicksButton(n)
       /\ wdg'.refreshes # wdg.refreshes =>
             \E n \in Objects : ClickButton(n, "true")]_vars

ActionCalledOnClickWitness ==
    /\ calls = <<[button |-> "Click me!", callback |-> "cb"],
                 [button |-> "Add Entry", callback |-> "other"]>>
    /\ wdg.refreshes = 1

-----------------------------------------------------------------------------
(* C17, C18: cancel() and exit() *)

Exits == \E l \in LibIds, dt \in {0, 1} : Exit(l, dt)

\* The calls of a script the host serves.
HostCall ==
    \/ ChangesClone
    \/ Cancel
    \/ Exits
    \/ \E l \in LibIds : Creates(l, <<>>)
    \/ \E id \in Ids, v \in {Str("Prosesor")} : Set(id, "Catatan", v)
    \/ Dialog
    \/ Show

\* C18: exit() ends the script in the step it is called in, and from then on,
\* until the host starts the script of another event, no call of a script is
\* made: no set, create, cancel, dialog or show.
ExitTerminates ==
    [][/\ Exits => (~Running' /\ ret'.op = "exit")
       /\ ret.op = "exit" => ~HostCall]_vars

ExitTerminatesWitness ==
    /\ ret.op = "exit"
    /\ evt.pc = "saved" /\ evt.phase = "beforeSave"
    /\ evt.clone["Catatan"] = Str("Mobo")
    /\ dlg.pc = "building"

-----------------------------------------------------------------------------
(* C20: the type of field(name) *)

-----------------------------------------------------------------------------
(* C21: the ID of a renamed library *)

\* C21: a rename of a library leaves what libById returns for every ID as it
\* was, so the ID of a library the script may access still finds that same
\* library, while libByName of the old name no longer returns the renamed
\* library and libByName of the new name returns what libById of its ID does.
IdStableUnderRename ==
    [][\A l \in LibIds, name \in LibNames :
          Rename(l, name) =>
             /\ \A id \in LibIds : libById(id)' = libById(id)
             /\ Accessible(l) => (libById(l) = l /\ libById(l)' = l)
             /\ \E old \in {libs[l].name} : libByName(old)' # l
             /\ libByName(name)' = libById(l)']_vars

IdStableUnderRenameWitness ==
    /\ ret = Found("libByName", "Tasks", "lib_1")
    /\ libs["lib_1"].name = "Item Penjualan"
    /\ libById("lib_1") = "lib_1"
    /\ libByName("Tasks") = NoLibrary

-----------------------------------------------------------------------------
(* C22: link, unlink and linksTo *)

LinkedIn(e, k, x) == Linked(e.fields[k], x)

\* C22: link(name, x) on an entry e leaves x linked in the field `name` and
\* e in linksTo(x) of its library; unlink(name, x) leaves x not linked in
\* that field, and e in linksTo(x) exactly when another Link to Entry field
\* of e links to x; both change no other field and no other entry; and
\* linksTo(x) of a library is a set of entries of that library, an entry of
\* it being in the set exactly when one of its Link to Entry fields links to x.
LinksToFollowsLinks ==
    [][/\ \A id, x \in Ids, k \in LinkFields :
             \E e \in {EntryOf(id)} :
                /\ Link(id, k, x) =>
                      /\ LinkedIn(EntryOf(id)', k, x)
                      /\ id \in linksTo(e.lib, x)'
                      /\ \A o \in LibIds \ {e.lib} : id \notin linksTo(o, x)'
                      /\ \A f \in FieldNames \ {k} :
                            EntryOf(id)'.fields[f] = e.fields[f]
                      /\ \A o \in Ids \ {id} : EntryOf(o)' = EntryOf(o)
                /\ Unlink(id, k, x) =>
                      /\ ~LinkedIn(EntryOf(id)', k, x)
                      /\ id \in linksTo(e.lib, x)' <=>
                            \E f \in LinkFields \ {k} : LinkedIn(e, f, x)
                      /\ \A f \in FieldNames \ {k} :
                            EntryOf(id)'.fields[f] = e.fields[f]
                      /\ \A o \in Ids \ {id} : EntryOf(o)' = EntryOf(o)
       /\ \A l \in LibIds, x \in Ids :
             /\ \A id \in linksTo(l, x) : findById(l, id) = id
             /\ \A e \in OfLibrary(l) :
                   e.id \in linksTo(l, x) <=> \E k \in LinkFields : LinkedIn(e, k, x)]_vars

LinksToFollowsLinksWitness ==
    /\ Len(store) = 2
    /\ store[1].lib = "lib_1" /\ store[2].lib = "lib_2"
    /\ store[2].fields["Pesanan Penjualan"] = Ents(<<>>)
    /\ store[2].fields["Project"] = Ents(<<1>>)
    /\ store[1].fields["Pesanan Penjualan"] = Ents(<<2, 1>>)
    /\ linksTo("lib_2", 1) = {2} /\ linksTo("lib_1", 1) = {1}
    /\ linksTo("lib_1", 2) = {1} /\ linksTo("lib_2", 2) = {}

-----------------------------------------------------------------------------
(* C23: duplicate() *)

\* C23: duplicate() of an entry adds one entry and returns it; the new entry
\* has an id no entry had, the library and the value of every field of the
\* entry it was made of, and leaves every entry that existed as it was; and
\* a set or a link on any entry, original or duplicate, changes the field it
\* is called for in that entry and nothing in any other entry.
DuplicateIsIndependentCopy ==
    [][/\ \A id \in Ids, dt \in {0, 1} :
             Duplicate(id, dt) =>
                /\ Len(store') = Len(store) + 1
                /\ \E new \in Ids' \ Ids :
                      /\ ret'.id = new
                      /\ EntryOf(new)'.fields = EntryOf(id).fields
                      /\ EntryOf(new)'.lib = EntryOf(id).lib
                /\ \A o \in Ids : EntryOf(o)' = EntryOf(o)
       /\ \A id \in Ids, k \in {"Catatan", "Quantity"} :
             \A v \in ValuesOf(k) :
                Set(id, k, v) =>
                   /\ EntryOf(id)'.fields = [EntryOf(id).fields EXCEPT ![k] = v]
                   /\ \A o \in Ids \ {id} : EntryOf(o)' = EntryOf(o)
       /\ \A id, x \in Ids, k \in LinkFields :
             Link(id, k, x) => \A o \in Ids \ {id} : EntryOf(o)' = EntryOf(o)]_vars

DuplicateIsIndependentCopyWitness ==
    /\ Len(store) = 2
    /\ store[1].fields["Catatan"] = Str("Mobo")
    /\ store[2].fields["Catatan"] = Str("Prosesor")
    /\ store[1].fields["Quantity"] = Num(0)
    /\ store[2].fields["Quantity"] = Num(42)
    /\ store[1].fields["Pesanan Penjualan"] = Ents(<<1>>)
    /\ store[2].fields["Pesanan Penjualan"] = Ents(<<1>>)
    /\ store[2].id # store[1].id /\ store[2].lib = store[1].lib

-----------------------------------------------------------------------------
(* C24: findById *)

\* C24: findById(id) on a library ends in no error and changes nothing; it
\* returns the entry with that id when the library has one, also when that
\* entry is in the Recycle Bin, and null otherwise; what it returns is never
\* an entry with another id nor an entry of another library.
FindByIdExact ==
    [][\A l \in LibIds, id \in QueryIds :
          FindById(l, id) =>
             /\ ~ret'.err
             /\ store' = store /\ bin' = bin
             /\ (\E e \in Range(store) : e.lib = l /\ e.id = id) => ret'.id = id
             /\ ~(\E e \in Range(store) : e.lib = l /\ e.id = id) => ret'.id = 0
             /\ ret'.id # 0 => (ret'.id = id /\ EntryOf(ret'.id).lib = l)]_vars

FindByIdExactWitness ==
    /\ ret = Returned("findById", "lib_2", 0)
    /\ Len(store) = 2
    /\ store[1].lib = "lib_1" /\ store[2].lib = "lib_1"
    /\ findById("lib_1", 2) = 2 /\ findById("lib_2", 2) = 0
    /\ deleted(store[2])

-----------------------------------------------------------------------------
(* C25: the tree of UI objects *)

ChildrenOf(n) == {lay.nodes[n].children[i] : i \in DOMAIN lay.nodes[n].children}

\* The objects reached from the objects of S in at most `steps` steps down.
RECURSIVE Below(_, _)
Below(S, steps) ==
    IF steps = 0 THEN S
    ELSE Below(S \cup UNION {ChildrenOf(m) : m \in S \cap Objects}, steps - 1)

Descendants(n) == Below(ChildrenOf(n), Len(lay.nodes))

\* C25: in every state, whatever factories and setters were called, no UI
\* object is among its own descendants, every child of an object is an
\* object the script has created, and an object that is not a layout or a
\* pages object (text, button, edit, checkbox, choiceBox, image) has no
\* children.
UiTreeAcyclic ==
    \A n \in Objects :
        /\ n \notin Descendants(n)
        /\ ChildrenOf(n) \subseteq Objects
        /\ lay.nodes[n].kind \notin {"layout", "pages"} => ChildrenOf(n) = {}
        /\ lay.nodes[n].kind \in {"text", "layout", "button", "edit",
                                  "checkbox", "choiceBox", "image", "pages"}

UiTreeAcyclicWitness ==
    /\ Len(lay.nodes) = 3
    /\ lay.nodes[1].kind = "checkbox" /\ lay.nodes[1].onChange = "other"
    /\ lay.nodes[2].kind = "layout" /\ lay.nodes[2].children = <<1>>
    /\ lay.nodes[2].horizontal
    /\ lay.nodes[3].kind = "pages" /\ lay.nodes[3].children = <<2>>
    /\ Descendants(3) = {1, 2}

-----------------------------------------------------------------------------
(* C26: entry() and entryDefault() *)

Usable(r) == ~r.err /\ r.arg \in {"clone", "defaults"}

\* C26: a call of entry() during 'Creating an entry > Opening an Entry Edit
\* card' gives the script nothing usable, and so does a call made while no
\* event on an entry is running; during the other events on an entry it
\* gives the clone of the entry; a call of entryDefault() gives the defaults
\* of the new entry during 'Creating an entry > Opening an Entry Edit card'
\* and nothing usable at any other time; neither call changes an entry.
AccessorsByEvent ==
    [][/\ Entry =>
             /\ (Running /\ evt.phase = "openCreate") => ~Usable(ret')
             /\ ~Running => ~Usable(ret')
             /\ (Running /\ evt.phase \in {"beforeSave", "beforeCreate", "afterSave"})
                   => (Usable(ret') /\ ret'.arg = "clone" /\ ret'.id = evt.id)
             /\ store' = store /\ evt' = evt
       /\ EntryDefault =>
             /\ (Running /\ evt.phase = "openCreate")
                   => (Usable(ret') /\ ret'.arg = "defaults")
             /\ ~(Running /\ evt.phase = "openCreate") => ~Usable(ret')
             /\ store' = store /\ evt' = evt]_vars

AccessorsByEventWitness ==
    /\ Running /\ evt.phase = "openCreate"
    /\ evt.clone["Catatan"] = Str("Prosesor")
    /\ ret.op = "entry" /\ ret.err
    /\ Len(store) = 1

-----------------------------------------------------------------------------
(* C27, C29: buatContohItemPenjualan() *)

Runs == \E dt \in {0, 1} : BuatContohItemPenjualan(dt)

\* C27: when libByName('Item Penjualan') returns a library, a run of
\* buatContohItemPenjualan() ends without error and adds exactly three
\* entries, all to that library, after the entries there were and in the
\* order Prosesor, Mobo, Ram, with ids no entry had; each has Catatan equal
\* to its item and 'Pesanan Penjualan' equal to the one-element array of the
\* entry of the event; every entry there was, the entry of the event and
\* its clone, the Recycle Bin and the libraries are unchanged.
SampleCreatesThreeItems ==
    [][\A l \in LibIds :
          (Runs /\ libByName("Item Penjualan") = l) =>
             /\ ~ret'.err
             /\ Len(store') = Len(store) + 3
             /\ \A i \in DOMAIN store : store'[i] = store[i]
             /\ \A n \in 1 .. 3 :
                   \E new \in {store'[Len(store) + n]} :
                      /\ new.lib = l
                      /\ new.id \notin Ids
                      /\ new.fields["Catatan"] = Str(<<"Prosesor", "Mobo", "Ram">>[n])
                      /\ new.fields["Pesanan Penjualan"] = Ents(<<evt.id>>)
                      /\ \A m \in 1 .. 3 :
                            m # n => store'[Len(store) + m].id # new.id
             /\ \A o \in LibIds \ {l} : OfLibrary(o)' = OfLibrary(o)
             /\ evt' = evt /\ bin' = bin /\ libs' = libs]_vars

SampleCreatesThreeItemsWitness ==
    /\ Len(store) = 4
    /\ store[1].lib # store[2].lib
    /\ store[2].lib = libByName("Item Penjualan")
    /\ evt.pc = "script" /\ evt.id = 1
    /\ store[3].fields["Catatan"] = Str("Mobo")
    /\ store[4].fields["Catatan"] = Str("Ram")
    /\ store[4].fields["Pesanan Penjualan"] = Ents(<<1>>)
    /\ store[4].lib = store[2].lib

\* C29: when libByName('Item Penjualan') returns null, a run of
\* buatContohItemPenjualan() ends with the error of a create call on null;
\* the error is that of the first call, the calls for the other items are
\* not made, and no entry is created in any library: the entries, the next
\* id, the clock, the Recycle Bin and the entry of the event are unchanged.
SampleFailsOnNullLibrary ==
    [][(Runs /\ libByName("Item Penjualan") = NoLibrary) =>
          /\ ret' = Failed("create", NoLibrary)
          /\ \A dt \in {0, 1} :
                forEach(Heap, 1, NoLibrary, evt.id, dt)
                   = createOn(Heap, NoLibrary, ItemValues(evt.id, Items[1]), dt)
          /\ store' = store /\ nextId' = nextId /\ clock' = clock
          /\ \A l \in LibIds : OfLibrary(l)' = OfLibrary(l)
          /\ evt' = evt /\ bin' = bin /\ libs' = libs]_vars

SampleFailsOnNullLibraryWitness ==
    /\ ret = Failed("create", NoLibrary)
    /\ evt.pc = "script" /\ evt.id = 1
    /\ Len(store) = 1
    /\ \E l \in LibIds :
          libs[l].name = "Item Penjualan" /\ libs[l].present /\ ~libs[l].permitted
    /\ libByName("Item Penjualan") = NoLibrary

-----------------------------------------------------------------------------
(* C28: dialogKonfirmasi(callback) *)

\* C28: a call of dialogKonfirmasi(callback) shows exactly one dialog and
\* invokes no callback; the view of the dialog is a new layout of exactly
\* two children, the button 'Yes' whose action is `callback` and then the
\* button 'No' without an action, and no earlier object is changed; a click
\* on a 'Yes' button invokes the callback of that button once, a click on a
\* 'No' button invokes nothing, and nothing but a click on a 'Yes' button
\* invokes a callback.
ConfirmCallsBackOnYes ==
    [][/\ \A cb \in Callbacks :
             DialogKonfirmasi(cb) =>
                /\ calls' = calls
                /\ Len(host'.dialogs) = Len(host.dialogs) + 1
                /\ \A i \in DOMAIN host.dialogs : host'.dialogs[i] = host.dialogs[i]
                /\ dlg'.pc = "shown"
                /\ \A m \in Objects : lay'.nodes[m] = lay.nodes[m]
                /\ \E v \in {host'.dialogs[Len(host'.dialogs)].view} :
                      /\ v \in Objects' \ Objects
                      /\ lay'.nodes[v].kind = "layout"
                      /\ Len(lay'.nodes[v].children) = 2
                      /\ \E y \in {lay'.nodes[v].children[1]},
                            n \in {lay'.nodes[v].children[2]} :
                            /\ lay'.nodes[y].kind = "button"
                            /\ lay'.nodes[y].text = "Yes"
                            /\ lay'.nodes[y].action = cb
                            /\ lay'.nodes[n].kind = "button"
                            /\ lay'.nodes[n].text = "No"
                            /\ lay'.nodes[n].action = ""
       /\ \A n \in Objects, result \in Returns :
             ClickButton(n, result) =>
                IF lay.nodes[n].text = "Yes"
                THEN calls' = Append(calls, [button |-> "Yes",
                                             callback |-> lay.nodes[n].action])
                ELSE calls' = calls
       /\ calls' # calls =>
             \E n \in Objects : lay.nodes[n].text = "Yes" /\ ClicksButton(n)]_vars

ConfirmCallsBackOnYesWitness ==
    /\ Len(host.dialogs) = 2
    /\ host.dialogs[1].view = 3 /\ host.dialogs[2].view = 6
    /\ lay.nodes[1].action = "cb" /\ lay.nodes[4].action = "other"
    /\ lay.nodes[6].children = <<4, 5>>
    /\ calls = <<[button |-> "Yes", callback |-> "other"]>>
    /\ wdg.refreshes = 1

====
